---------------------------- MODULE Spec2Model ----------------------------
(***************************************************************************)
(* Letterboxd Wrapped: the concurrent enrichment pipeline.                 *)
(*                                                                         *)
(* Modelled from src/backend/app/main.py (the FastAPI backend); the        *)
(* serverless variant src/api/analyze.py has the same tmdb_get,            *)
(* resolve_tmdb_id, fetch_comprehensive_film_details and orchestration,    *)
(* and differences are noted where a definition depends on them.           *)
(*                                                                         *)
(* Specifications:                                                         *)
(*   SpecGet      successive tmdb_get calls against the disk cache         *)
(*   SpecResolve  resolve_tmdb_id tasks (two calls, any interleaving)      *)
(*   SpecFetch    fetch_comprehensive_film_details tasks                   *)
(*   Spec         process_comprehensive_letterboxd_data, one batch         *)
(***************************************************************************)
EXTENDS Integers, Sequences, FiniteSets, TLC

(***************************************************************************)
(* Bounds of the model.                                                    *)
(***************************************************************************)
\* successive tmdb_get calls in SpecGet
MaxCalls == 3
\* rows of unique_films in one batch
MaxFilms == 2
\* requests that fail (error status or unreadable body) in one run
MaxFailures == 2

(***************************************************************************)
(* Python values.                                                          *)
(***************************************************************************)
\* A year as pandas hands it to resolve_tmdb_id: an integer, NaN (a missing
\* Year cell of the CSV) or None (the parameter's default).
IntYear(y) == [k |-> "int", v |-> y]
NaN == [k |-> "nan", v |-> 0]
NoYear == [k |-> "none", v |-> 0]

\* bool(year): None and 0 are falsy, NaN and every other number are truthy.
Truthy(year) == year.k = "nan" \/ (year.k = "int" /\ year.v # 0)

\* pd.isna(year)
IsNa(year) == year.k \in {"nan", "none"}

Range(s) == {s[i] : i \in 1..Len(s)}

(***************************************************************************)
(* Requests and payloads.                                                  *)
(*                                                                         *)
(* A request is the (endpoint, params) pair of tmdb_get.  The api_key is   *)
(* the same in every request and is left out.  num is the 'year'           *)
(* parameter of a search (0: no 'year' parameter) or the movie id.         *)
(***************************************************************************)
SearchKey(title, yr) == [endpoint |-> "search/movie", query |-> title, num |-> yr]
MovieKey(sub, id) == [endpoint |-> sub, query |-> "", num |-> id]

\* One entry of a search response's 'results' list; has_id = FALSE is an
\* entry without the 'id' key.
Entry(id) == [has_id |-> TRUE, id |-> id]
NoIdEntry == [has_id |-> FALSE, id |-> 0]

\* One crew member of a credits response; has_job = FALSE is a member
\* without the 'job' key.
Crew(name, job) == [name |-> name, job |-> job, has_job |-> TRUE]
CrewNoJob(name) == [name |-> name, job |-> "", has_job |-> FALSE]

\* A parsed JSON response.  Every payload carries every field so that values
\* compare; a field an endpoint does not return is empty.
EmptyPayload ==
    [results |-> <<>>, title |-> "", release_date |-> <<>>, runtime |-> 0,
     language |-> "", genres |-> <<>>, countries |-> <<>>,
     crew |-> <<>>, cast |-> <<>>, keywords |-> <<>>]

SearchPayload(results) == [EmptyPayload EXCEPT !.results = results]

DetailsPayload(title, date, runtime, lang, genres, countries) ==
    [EmptyPayload EXCEPT !.title = title, !.release_date = date,
                         !.runtime = runtime, !.language = lang,
                         !.genres = genres, !.countries = countries]

CreditsPayload(crew, cast) == [EmptyPayload EXCEPT !.crew = crew, !.cast = cast]

KeywordsPayload(kw) == [EmptyPayload EXCEPT !.keywords = kw]

\* What tmdb_get returns: a payload, or None.
Some(p) == [none |-> FALSE, data |-> p]
None == [none |-> TRUE, data |-> EmptyPayload]


(***************************************************************************)
(* The external metadata provider (api.themoviedb.org), fixed for the      *)
(* whole run: "the provider's state does not change between calls".        *)
(***************************************************************************)
Chars(a, b, c, d, rest) == <<a, b, c, d>> \o rest

\* search/movie: 'results' for a title and an optional year (0: none).
\*   Parasite (2019)  is found under its year;
\*   Parasite (2020)  is logged under an alternate year: found only by the
\*                    year-less search, which ranks another film first;
\*   Heat             is found with or without a year;
\*   Lost Reel        is not in the database;
\*   Glitch           comes back as an entry without an 'id'.
SearchResults(title, yr) ==
    CASE title = "Parasite" /\ yr = 2019 -> <<Entry(1)>>
      [] title = "Parasite" /\ yr = 0    -> <<Entry(3), Entry(1)>>
      [] title = "Heat" /\ yr \in {0, 1995} -> <<Entry(2)>>
      [] title = "Glitch"                -> <<NoIdEntry>>
      [] OTHER                           -> <<>>

\* movie/{id}
MovieDetails(id) ==
    CASE id = 1 -> DetailsPayload("Parasite",
                       Chars("2", "0", "1", "9", <<"-", "0", "5", "-", "3", "0">>),
                       132, "ko", <<"Comedy", "Thriller">>, <<"South Korea">>)
      [] id = 2 -> DetailsPayload("Heat",
                       Chars("1", "9", "9", "5", <<"-", "1", "2", "-", "1", "5">>),
                       170, "en", <<"Crime", "Thriller">>, <<"United States">>)
      [] OTHER  -> DetailsPayload("Memories", <<>>, 0, "ko", <<"Crime">>, <<>>)

\* movie/{id}/credits; the credits of film 3 hold a crew member without 'job'.
MovieCredits(id) ==
    CASE id = 1 -> CreditsPayload(<<Crew("Han Jin-won", "Screenplay"),
                                    Crew("Bong Joon-ho", "Director")>>,
                                  <<"Song Kang-ho", "Lee Sun-kyun">>)
      [] id = 2 -> CreditsPayload(<<Crew("Michael Mann", "Director"),
                                    Crew("Michael Mann", "Writer")>>,
                                  <<"Al Pacino", "Robert De Niro">>)
      [] OTHER  -> CreditsPayload(<<CrewNoJob("Bong Joon-ho")>>, <<"Song Kang-ho">>)

\* movie/{id}/keywords
MovieKeywords(id) ==
    CASE id = 1 -> KeywordsPayload(<<"class differences">>)
      [] id = 2 -> KeywordsPayload(<<"heist">>)
      [] OTHER  -> KeywordsPayload(<<>>)

\* The body the provider answers a request with.
Provider(key) ==
    CASE key.endpoint = "search/movie"   -> SearchPayload(SearchResults(key.query, key.num))
      [] key.endpoint = "movie"          -> MovieDetails(key.num)
      [] key.endpoint = "movie/credits"  -> MovieCredits(key.num)
      [] OTHER                           -> MovieKeywords(key.num)

\* How one network request ends:
\*   ok            status 200 and a JSON body;
\*   client_error  an aiohttp.ClientError: a transport error, the
\*                 ClientResponseError of raise_for_status(), or the
\*                 ContentTypeError of response.json();
\*   bad_json      status 200, JSON content type and a body that is no JSON:
\*                 response.json() raises json.JSONDecodeError, a ValueError.
Outcomes == {"ok", "client_error", "bad_json"}

(***************************************************************************)
(* The disk cache: one file per request, CACHE_DIR/<md5>.json.  The cache  *)
(* is the function from the requests that have a file to that file.        *)
(***************************************************************************)
Titles == {"Parasite", "Heat", "Lost Reel", "Glitch"}
YearParams == {0, 1995, 2019, 2020}
MovieIds == {1, 2, 3}
SubEndpoints == <<"movie", "movie/credits", "movie/keywords">>

SearchKeys == {SearchKey(t, y) : t \in Titles, y \in YearParams}
MovieKeys == {MovieKey(SubEndpoints[i], id) : i \in 1..3, id \in MovieIds}
AllKeys == SearchKeys \cup MovieKeys

NoFile == [state |-> "absent", data |-> EmptyPayload]
CorruptFile == [state |-> "corrupt", data |-> EmptyPayload]

\* (mutant) an empty object is written in place of the response
JsonDump_empty(data) == [state |-> "ok", data |-> EmptyPayload]

\* json.dumps(data) written to the file, and json.loads of what is read back.
JsonDump(data) == [state |-> "ok", data |-> data]
JsonLoadable(file) == file.state = "ok"
JsonLoad(file) == file.data

EmptyCache == <<>>

\* The file of a request, NoFile when cache_file.exists() is false.
FileAt(cachev, key) == IF key \in DOMAIN cachev THEN cachev[key] ELSE NoFile

\* The cache after the file of a request is written.
WriteFile(cachev, key, file) ==
    [k \in DOMAIN cachev \cup {key} |-> IF k = key THEN file ELSE cachev[k]]

(***************************************************************************)
(* tmdb_get, run from its call to its return (no other task in between).   *)
(* Returns the value (or that it raised), the cache afterwards, the number *)
(* of network requests it issued and whether it slept.                     *)
(***************************************************************************)
\* (mutant) the cache is never consulted
CacheReadable_never(cachev, key) == FALSE

CacheReadable(cachev, key) ==
    \* cache_file.exists() and the read parses; an exception of the read is
    \* swallowed ("pass") and the request goes to the network
    key \in DOMAIN cachev /\ JsonLoadable(cachev[key])

\* (mutant) the delay is taken on every path
tmdb_get_sleeps_always(cachev, key, outcome) ==
    IF key \in DOMAIN cachev /\ JsonLoadable(cachev[key])
    THEN [ret |-> Some(JsonLoad(cachev[key])), raised |-> FALSE,
          cache |-> cachev, net |-> 0, slept |-> TRUE]
    ELSE CASE outcome = "ok" ->
                [ret |-> Some(Provider(key)), raised |-> FALSE,
                 cache |-> WriteFile(cachev, key, JsonDump(Provider(key))),
                 net |-> 1, slept |-> TRUE]
           [] outcome = "client_error" ->
                [ret |-> None, raised |-> FALSE,
                 cache |-> cachev, net |-> 1, slept |-> TRUE]
           [] OTHER ->
                [ret |-> None, raised |-> TRUE,
                 cache |-> cachev, net |-> 1, slept |-> TRUE]

tmdb_get(cachev, key, outcome) ==
    IF CacheReadable(cachev, key)
    THEN [ret |-> Some(JsonLoad(cachev[key])), raised |-> FALSE,
          cache |-> cachev, net |-> 0, slept |-> FALSE]
    ELSE CASE outcome = "ok" ->
                [ret |-> Some(Provider(key)), raised |-> FALSE,
                 cache |-> WriteFile(cachev, key, JsonDump(Provider(key))),
                 net |-> 1, slept |-> TRUE]
           [] outcome = "client_error" ->
                [ret |-> None, raised |-> FALSE,
                 cache |-> cachev, net |-> 1, slept |-> FALSE]
           [] OTHER ->
                \* json.JSONDecodeError is no aiohttp.ClientError
                [ret |-> None, raised |-> TRUE,
                 cache |-> cachev, net |-> 1, slept |-> FALSE]

(***************************************************************************)
(* State.                                                                  *)
(***************************************************************************)
VARIABLES
    cache,      \* the files of CACHE_DIR: request -> file
    glog,       \* SpecGet: what the latest tmdb_get call saw and did
    ncalls,     \* SpecGet: tmdb_get calls made so far
    rtask,      \* the resolve_tmdb_id tasks, in task order
    ftask,      \* the fetch_comprehensive_film_details tasks, in task order
    pc,         \* where process_comprehensive_letterboxd_data stands
    unique_films,       \* the (title, year) rows, duplicates dropped
    tmdb_ids,           \* what the resolve tasks returned, row by row
    unique_tmdb_ids,    \* the ids handed to the fetch tasks
    metadata_df,        \* the non-empty records the fetch tasks returned
    films_enriched,     \* unique_films left-joined with metadata_df
    failure,            \* the exception that ended the batch, "" if none
    csv_files,  \* SpecLoad: the CSV files of the uploaded archive
    loaded,     \* SpecLoad: what the loading stage made of them
    pool,       \* SpecPool: the requests of one session, by where they stand
    gtask,      \* SpecCache: the tmdb_get calls, statement by statement
    first_write,    \* SpecCache: what was first written under each key
    now,        \* SpecCache: the time, in units of the delay of tmdb_get
    progress,   \* SpecProgress: the progress store
    req,        \* SpecProgress: the analysis requests
    stats,      \* SpecStats: the statistics computed from films_enriched
    diary_df    \* SpecBinge: the diary entries and what binge detection found

getVars == <<glog, ncalls>>
batchVars == <<pc, unique_films, tmdb_ids, unique_tmdb_ids, metadata_df,
               films_enriched, failure>>
loadVars == <<csv_files, loaded>>
cacheVars == <<gtask, first_write, now>>
progressVars == <<progress, req>>
statVars == <<stats, diary_df>>
auxVars == <<loadVars, pool, cacheVars, progressVars, statVars>>
vars == <<cache, glog, ncalls, rtask, ftask, pc, unique_films, tmdb_ids,
          unique_tmdb_ids, metadata_df, films_enriched, failure, csv_files,
          loaded, pool, gtask, first_write, now, progress, req, stats,
          diary_df>>

\* A CSV file of the archive: absent, or its rows (none: the header only).
AbsentFile == [present |-> FALSE, rows |-> <<>>]
CsvFile(rows) == [present |-> TRUE, rows |-> rows]

NotLoaded ==
    [impl |-> "", failure |-> "", films_df |-> <<>>, unique_films |-> <<>>,
     total_films |-> 0, rating_distribution |-> <<>>]

NoPool == [idle |-> 0, waiting |-> 0, open |-> 0, done |-> 0, timed_out |-> 0]

\* No statistics computed, no diary examined.
\* A film and its runtime; a ranking entry; both absent.
NoFilm == [title |-> "", runtime |-> 0]
NoEntry == [name |-> "", count |-> 0]

\* stats = {}: a key that is not set reads as its falsy value with
\* stats.get(key).  cinematic_persona holds the three values the persona and
\* its description are looked up from.
NoStats ==
    [impl |-> "", failure |-> "",
     longest_film |-> NoFilm, shortest_film |-> NoFilm,
     cinematic_persona |-> [top_genre |-> "", top_decade |-> "", top_country |-> ""],
     director_deep_analysis |-> NoEntry, world_tour |-> <<>>,
     cinematic_passport |-> 0,
     top_directors |-> <<>>, total_directors |-> 0, most_watched_director |-> NoEntry,
     top_genres |-> <<>>, decades |-> <<>>, favorite_decade |-> NoEntry,
     top_countries |-> <<>>, total_countries |-> 0,
     top_languages |-> <<>>, top_actors |-> <<>>]
NoBinge == [present |-> FALSE, total_sessions |-> 0, longest_session |-> 0,
            total_binge_films |-> 0]
NoDiary == [dates |-> <<>>, examined |-> FALSE, binge_analysis |-> NoBinge]

\* The other variables of a specification that does not use them.
NoAux ==
    /\ csv_files = [watched |-> AbsentFile, ratings |-> AbsentFile, diary |-> AbsentFile]
    /\ loaded = NotLoaded
    /\ pool = NoPool
    /\ gtask = <<>>
    /\ first_write = <<>>
    /\ now = 0
    /\ progress = <<>>
    /\ req = <<>>
    /\ stats = NoStats
    /\ diary_df = NoDiary

\* The batch variables of a specification that runs no batch.
NoBatch ==
    /\ pc = "none"
    /\ unique_films = <<>>
    /\ tmdb_ids = <<>>
    /\ unique_tmdb_ids = <<>>
    /\ metadata_df = <<>>
    /\ films_enriched = <<>>
    /\ failure = ""

NoLog ==
    [called |-> FALSE, key |-> SearchKey("", 0), outcome |-> "ok",
     before |-> NoFile, after |-> NoFile,
     ret |-> None, raised |-> FALSE, net |-> 0, slept |-> FALSE]

(***************************************************************************)
(* SpecGet: tmdb_get called again and again on a cache that starts with    *)
(* some entries absent, some written by an earlier run (fresh, or older    *)
(* than the provider's present answer) and some corrupt.                   *)
(***************************************************************************)
GetKeys == {SearchKey("Parasite", 2019), SearchKey("Heat", 0), MovieKey("movie", 1)}

\* An entry of an earlier run whose payload is not the provider's present one.
StaleFile == JsonDump(SearchPayload(<<Entry(3)>>))

InitialFile(kind, key) ==
    CASE kind = "corrupt" -> CorruptFile
      [] kind = "fresh"   -> JsonDump(Provider(key))
      [] OTHER            -> StaleFile

InitGet ==
    /\ \E kinds \in [GetKeys -> {"absent", "corrupt", "fresh", "stale"}] :
          cache = [k \in {g \in GetKeys : kinds[g] # "absent"} |->
                       InitialFile(kinds[k], k)]
    /\ glog = NoLog
    /\ ncalls = 0
    /\ rtask = <<>>
    /\ ftask = <<>>
    /\ NoBatch
    /\ NoAux

\* One call of tmdb_get(session, endpoint, params).
GetCall(key, outcome) ==
    /\ ncalls < MaxCalls
    /\ LET r == tmdb_get(cache, key, outcome) IN
       /\ cache' = r.cache
       /\ glog' = [called |-> TRUE, key |-> key, outcome |-> outcome,
                   before |-> FileAt(cache, key), after |-> FileAt(r.cache, key),
                   ret |-> r.ret, raised |-> r.raised, net |-> r.net,
                   slept |-> r.slept]
    /\ ncalls' = ncalls + 1
    /\ UNCHANGED <<rtask, ftask, batchVars, auxVars>>

NextGet == \E key \in GetKeys, outcome \in Outcomes : GetCall(key, outcome)

SpecGet == InitGet /\ [][NextGet]_vars

(***************************************************************************)
(* Claims about tmdb_get.                                                  *)
(***************************************************************************)
\* C3: when tmdb_get is called for a request whose cache entry exists and is
\* readable, it issues no network request and returns exactly the cached
\* payload.
C3_CacheHitShortCircuit ==
    (glog.called /\ glog.before.state = "ok")
        => /\ glog.net = 0
           /\ ~glog.raised
           /\ glog.ret = Some(glog.before.data)

\* C3 witness: a call served from an entry whose payload is not the one the
\* provider would answer with now.
C3_Witness ==
    /\ glog.called
    /\ glog.key = SearchKey("Parasite", 2019)
    /\ glog.before = StaleFile
    /\ glog.ret = Some(SearchPayload(<<Entry(3)>>))
    /\ glog.ret # Some(Provider(glog.key))
    /\ glog.net = 0

\* C4: tmdb_get never raises for a failed request: on a transport error, an
\* HTTP status error or a malformed response body it returns None, and it
\* writes no cache entry, so that a later call for the same request goes to
\* the network again.
C4_FailedRequestReturnsNone ==
    (glog.called /\ glog.net = 1 /\ glog.outcome # "ok")
        => /\ ~glog.raised
           /\ glog.ret = None
           /\ glog.after = glog.before
           /\ ~CacheReadable(cache, glog.key)

\* C22: tmdb_get takes the rate-limit delay after every successful network
\* fetch, and on no path that returns a cached payload or a failure.
C22_DelayExactlyAfterFetch ==
    glog.called
        => (glog.slept <=> (glog.before.state # "ok" /\ glog.outcome = "ok"))

\* C22 witness: a call that went to the network, stored the response and
\* slept before it returned.
C22_Witness ==
    /\ glog.called /\ glog.slept /\ glog.net = 1
    /\ ~glog.ret.none /\ glog.after.state = "ok"

(***************************************************************************)
(* resolve_tmdb_id.  A task makes its tmdb_get calls one after the other;  *)
(* each call is one step, and the steps of different tasks interleave.     *)
(***************************************************************************)
\* Optional[int]: the TMDb id, or None.
SomeId(id) == [none |-> FALSE, id |-> id]
NoId == [none |-> TRUE, id |-> 0]

\* The 'year' parameter of the first search (0: the parameter is left out).
query_year(year) == IF Truthy(year) /\ ~IsNa(year) THEN year.v ELSE 0

\* data.get('results', []) if data else []
ResultsOf(ret) == IF ret.none THEN <<>> ELSE ret.data.results

\* results[0]['id'] if results else None; an entry without 'id' is a KeyError
first_id(results) ==
    IF results = <<>> THEN [ret |-> NoId, raised |-> FALSE]
    ELSE IF results[1].has_id THEN [ret |-> SomeId(results[1].id), raised |-> FALSE]
    ELSE [ret |-> NoId, raised |-> TRUE]

\* (mutant) no try/except around the searches: the exception leaves the task
resolve_except_missing(x) == x

\* except Exception: return None
resolve_except(x) == IF x.raised THEN [ret |-> NoId, raised |-> FALSE] ELSE x

\* if not results and year:
retry_without_year(results, year) == results = <<>> /\ Truthy(year)

NewResolveTask(title, year) ==
    [title |-> title, year |-> year, pc |-> "search1", calls |-> <<>>,
     ret |-> NoId, raised |-> FALSE]

\* What a task remembers of one tmdb_get call it made.
CallLog(key, r) ==
    [key |-> key, net |-> r.net, none |-> r.ret.none, raised |-> r.raised,
     results |-> ResultsOf(r.ret)]

\* The task after a search returned r: it retries, or it returns.
AfterSearch(t, key, r, mayRetry) ==
    LET logged == [t EXCEPT !.calls = Append(@, CallLog(key, r))]
        out == resolve_except(IF r.raised THEN [ret |-> NoId, raised |-> TRUE]
                                          ELSE first_id(ResultsOf(r.ret)))
    IN  IF ~r.raised /\ mayRetry /\ retry_without_year(ResultsOf(r.ret), t.year)
        THEN [logged EXCEPT !.pc = "search2"]
        ELSE [logged EXCEPT !.pc = IF out.raised THEN "raised" ELSE "done",
                            !.ret = out.ret, !.raised = out.raised]

\* The requests that have failed so far, over all tasks.
RECURSIVE SumOver(_, _)
SumOver(f, n) == IF n = 0 THEN 0 ELSE f[n] + SumOver(f, n - 1)

FailedSearches(t) ==
    Cardinality({c \in DOMAIN t.calls : t.calls[c].none \/ t.calls[c].raised})

FailedSubs(t) ==
    Cardinality({j \in DOMAIN t.sub :
                    \/ t.sub[j].pc = "raised"
                    \/ t.sub[j].pc = "returned" /\ t.sub[j].ret.none})

FailedRequests ==
    SumOver([k \in DOMAIN rtask |-> FailedSearches(rtask[k])], Len(rtask))
    + SumOver([i \in DOMAIN ftask |-> FailedSubs(ftask[i])], Len(ftask))

\* The provider answers; it fails at most MaxFailures requests of a run.
MayAnswer(outcome) == outcome = "ok" \/ FailedRequests < MaxFailures

\* data = await tmdb_get(session, 'search/movie', query_params)
ResolveSearch1(k, outcome) ==
    /\ k \in DOMAIN rtask
    /\ MayAnswer(outcome)
    /\ rtask[k].pc = "search1"
    /\ LET t == rtask[k]
           key == SearchKey(t.title, query_year(t.year))
           r == tmdb_get(cache, key, outcome)
       IN /\ cache' = r.cache
          /\ rtask' = [rtask EXCEPT ![k] = AfterSearch(t, key, r, TRUE)]
    /\ UNCHANGED <<getVars, ftask, batchVars, auxVars>>

\* data = await tmdb_get(session, 'search/movie', {'query': title, ...})
ResolveSearch2(k, outcome) ==
    /\ k \in DOMAIN rtask
    /\ MayAnswer(outcome)
    /\ rtask[k].pc = "search2"
    /\ LET t == rtask[k]
           key == SearchKey(t.title, 0)
           r == tmdb_get(cache, key, outcome)
       IN /\ cache' = r.cache
          /\ rtask' = [rtask EXCEPT ![k] = AfterSearch(t, key, r, FALSE)]
    /\ UNCHANGED <<getVars, ftask, batchVars, auxVars>>

(***************************************************************************)
(* SpecResolve: resolve_tmdb_id called twice, the calls in any order and   *)
(* interleaving (the second may start after the first has returned), on an *)
(* empty cache.                                                            *)
(***************************************************************************)
ResolveInputs ==
    {<<"Parasite", IntYear(2019)>>, <<"Parasite", IntYear(2020)>>,
     <<"Parasite", NaN>>, <<"Heat", IntYear(1995)>>, <<"Heat", NoYear>>,
     <<"Lost Reel", IntYear(1995)>>, <<"Lost Reel", NaN>>,
     <<"Glitch", IntYear(2019)>>}

InitResolve ==
    /\ cache = EmptyCache
    /\ glog = NoLog
    /\ ncalls = 0
    /\ \E a \in ResolveInputs, b \in ResolveInputs :
          rtask = <<NewResolveTask(a[1], a[2]), NewResolveTask(b[1], b[2])>>
    /\ ftask = <<>>
    /\ NoBatch
    /\ NoAux

NextResolve ==
    \/ \E k \in 1..2, outcome \in Outcomes : ResolveSearch1(k, outcome)
    \/ \E k \in 1..2, outcome \in Outcomes : ResolveSearch2(k, outcome)

SpecResolve == InitResolve /\ [][NextResolve]_vars

(***************************************************************************)
(* Claims about resolve_tmdb_id.                                           *)
(***************************************************************************)
Retried(t) == Len(t.calls) = 2
FirstSearchEmpty(t) ==
    Len(t.calls) >= 1 /\ ~t.calls[1].raised /\ t.calls[1].results = <<>>
AnyCallFailed(t) == \E i \in 1..Len(t.calls) : t.calls[i].none \/ t.calls[i].raised
AnyCallRaised(t) == \E i \in 1..Len(t.calls) : t.calls[i].raised
Malformed(call) == call.results # <<>> /\ ~call.results[1].has_id
LastCall(t) == t.calls[Len(t.calls)]
Returned(t) == t.pc \in {"done", "raised"}

\* C5: resolve_tmdb_id issues the year-less retry search exactly when the
\* first search produced zero results and a year was supplied; it issues at
\* most two searches per call, and no retry when no year was supplied (year
\* missing or NaN).
C5_RetryExactlyWhenYearSupplied ==
    \A k \in DOMAIN rtask :
       Returned(rtask[k]) =>
          /\ Retried(rtask[k]) <=> (FirstSearchEmpty(rtask[k]) /\ ~IsNa(rtask[k].year))
          /\ Len(rtask[k].calls) <= 2
          /\ IsNa(rtask[k].year) => ~Retried(rtask[k])

\* C6 as stated: whenever the client returns None or raises during either
\* search, or a result is malformed, the call returns None, and nothing
\* propagates.
C6_AnyFailureYieldsNone ==
    \A k \in DOMAIN rtask :
       /\ rtask[k].pc # "raised"
       /\ (rtask[k].pc = "done" /\ (AnyCallFailed(rtask[k])
                                    \/ Malformed(LastCall(rtask[k]))))
             => rtask[k].ret = NoId

\* C6 as amended: resolve_tmdb_id never propagates an error; it returns None
\* whenever a search raises, the last search it issued returns None, or the
\* first result of that search is malformed.  (A None from the first search
\* counts as zero results: the retry may still find the film.)
C6_NeverPropagates ==
    \A k \in DOMAIN rtask :
       /\ rtask[k].pc # "raised"
       /\ rtask[k].pc = "done" =>
             /\ ~rtask[k].raised
             /\ (AnyCallRaised(rtask[k]) \/ LastCall(rtask[k]).none
                 \/ Malformed(LastCall(rtask[k]))) => rtask[k].ret = NoId

\* C6 witness: one task ended unmatched by a raising search and one by a
\* malformed result, while the other task resolved its film.
C6_Witness ==
    /\ Len(rtask) = 2
    /\ rtask[1].pc = "done" /\ rtask[2].pc = "done"
    /\ AnyCallRaised(rtask[1]) /\ rtask[1].ret = NoId
    /\ rtask[2].ret = SomeId(2)

C6_WitnessMalformed ==
    /\ Len(rtask) = 2
    /\ rtask[1].pc = "done" /\ rtask[2].pc = "done"
    /\ Malformed(LastCall(rtask[1])) /\ rtask[1].ret = NoId
    /\ rtask[2].ret = SomeId(1)

SameFilm(a, b) == a.title = b.title /\ a.year = b.year

Str(v) == [none |-> FALSE, v |-> v]
NoStr == [none |-> TRUE, v |-> ""]

Min(a, b) == IF a <= b THEN a ELSE b

IsDigit(c) == c \in {"0", "1", "2", "3", "4", "5", "6", "7", "8", "9"}

DigitValue(c) ==
    CASE c = "0" -> 0 [] c = "1" -> 1 [] c = "2" -> 2 [] c = "3" -> 3
      [] c = "4" -> 4 [] c = "5" -> 5 [] c = "6" -> 6 [] c = "7" -> 7
      [] c = "8" -> 8 [] OTHER -> 9

\* int(s) of a string of decimal digits; anything else is a ValueError
\* (signs, blanks and underscores, which int() also reads, are not modelled).
IntParses(cs) == cs # <<>> /\ \A i \in 1..Len(cs) : IsDigit(cs[i])

RECURSIVE IntOf(_)
IntOf(cs) ==
    IF cs = <<>> THEN 0
    ELSE 10 * IntOf(SubSeq(cs, 1, Len(cs) - 1)) + DigitValue(cs[Len(cs)])

\* decade = f"{(int(release_date[:4]) // 10) * 10}s", None when release_date
\* is empty or the int() raises ValueError (main.py; src/api/analyze.py does
\* not catch the ValueError, which then reaches the function's except clause)
decade_of(release_date) ==
    LET head == SubSeq(release_date, 1, Min(4, Len(release_date))) IN
    IF release_date # <<>> /\ IntParses(head)
    THEN Str(ToString((IntOf(head) \div 10) * 10) \o "s")
    ELSE NoStr

\* [c['name'] for c in crew if c['job'] in jobs]
RECURSIVE NamesWithJob(_, _)
NamesWithJob(crew, jobs) ==
    IF crew = <<>> THEN <<>>
    ELSE (IF crew[1].job \in jobs THEN <<crew[1].name>> ELSE <<>>)
         \o NamesWithJob(Tail(crew), jobs)

\* The record the function returns: {} (empty), {'tmdb_id': id} (minimal) or
\* the full record.  Of the full record the fields the statistics read are
\* kept; the others (budget, revenue, popularity, ...) are copied from the
\* details the same way.
EmptyRecord ==
    [kind |-> "empty", tmdb_id |-> NoId, title |-> "", release_date |-> <<>>,
     runtime |-> 0, language |-> "", decade |-> NoStr, director |-> NoStr,
     directors |-> <<>>, writers |-> <<>>, cast |-> <<>>, genres |-> <<>>,
     countries |-> <<>>, keywords |-> <<>>]

MinimalRecord(tmdb_id) == [EmptyRecord EXCEPT !.kind = "minimal", !.tmdb_id = tmdb_id]

FullRecord(tmdb_id, details, credits, keywords) ==
    LET crew == IF credits.none THEN <<>> ELSE credits.data.crew
        directors == NamesWithJob(crew, {"Director"})
    IN [kind |-> "full", tmdb_id |-> tmdb_id,
        title |-> details.data.title,
        release_date |-> details.data.release_date,
        runtime |-> details.data.runtime,
        language |-> details.data.language,
        decade |-> decade_of(details.data.release_date),
        director |-> IF directors # <<>> THEN Str(directors[1]) ELSE NoStr,
        directors |-> directors,
        writers |-> NamesWithJob(crew, {"Writer", "Screenplay", "Story"}),
        cast |-> IF credits.none THEN <<>>
                 ELSE SubSeq(credits.data.cast, 1, Min(10, Len(credits.data.cast))),
        genres |-> details.data.genres,
        countries |-> details.data.countries,
        keywords |-> IF keywords.none THEN <<>> ELSE keywords.data.keywords]

\* c['job'] of a crew member without 'job' is a KeyError
NormalisationRaises(credits) ==
    ~credits.none /\ \E i \in 1..Len(credits.data.crew) : ~credits.data.crew[i].has_job

\* What follows `results = await asyncio.gather(...)` once all three returned.
fetch_record(tmdb_id, details, credits, keywords) ==
    IF details.none THEN [record |-> EmptyRecord, raised |-> FALSE]
    ELSE IF NormalisationRaises(credits)
         THEN [record |-> EmptyRecord, raised |-> TRUE]
         ELSE [record |-> FullRecord(tmdb_id, details, credits, keywords),
               raised |-> FALSE]

\* except Exception as e: return {'tmdb_id': tmdb_id}
fetch_except(tmdb_id, x) ==
    IF x.raised THEN [record |-> MinimalRecord(tmdb_id), raised |-> FALSE] ELSE x

PendingCall == [pc |-> "pending", ret |-> None]

\* The task of one call: with a NaN id it returns {} at once, otherwise the
\* three tmdb_get calls are handed to asyncio.gather.
NewFetchTask(tmdb_id) ==
    [tmdb_id |-> tmdb_id,
     pc |-> IF tmdb_id.none THEN "done" ELSE "gather",
     sub |-> IF tmdb_id.none THEN <<>> ELSE <<PendingCall, PendingCall, PendingCall>>,
     joined |-> <<>>,
     record |-> EmptyRecord]

\* One of the three tmdb_get calls of task i runs.  gather cancels nothing:
\* the calls still pending when the task has returned run all the same.
FetchSub(i, j, outcome) ==
    /\ i \in DOMAIN ftask
    /\ MayAnswer(outcome)
    /\ j \in DOMAIN ftask[i].sub
    /\ ftask[i].sub[j].pc = "pending"
    /\ LET r == tmdb_get(cache, MovieKey(SubEndpoints[j], ftask[i].tmdb_id.id), outcome)
       IN /\ cache' = r.cache
          /\ ftask' = [ftask EXCEPT ![i].sub[j] =
                          [pc |-> IF r.raised THEN "raised" ELSE "returned",
                           ret |-> r.ret]]
    /\ UNCHANGED <<getVars, rtask, batchVars, auxVars>>

SubRaised(t) == \E j \in DOMAIN t.sub : t.sub[j].pc = "raised"
SubAllReturned(t) == \A j \in DOMAIN t.sub : t.sub[j].pc = "returned"

\* `await asyncio.gather(...)` ends: with the three results once all calls
\* have returned, or with the exception as soon as one call raises.
FetchJoin(i) ==
    /\ i \in DOMAIN ftask
    /\ ftask[i].pc = "gather"
    /\ SubRaised(ftask[i]) \/ SubAllReturned(ftask[i])
    /\ LET t == ftask[i]
           out == fetch_except(t.tmdb_id,
                     IF SubRaised(t) THEN [record |-> EmptyRecord, raised |-> TRUE]
                     ELSE fetch_record(t.tmdb_id, t.sub[1].ret, t.sub[2].ret, t.sub[3].ret))
       IN ftask' = [ftask EXCEPT ![i].pc = IF out.raised THEN "raised" ELSE "done",
                                 ![i].joined = t.sub,
                                 ![i].record = out.record]
    /\ UNCHANGED <<cache, getVars, rtask, batchVars, auxVars>>

(***************************************************************************)
(* SpecFetch: one call of fetch_comprehensive_film_details on an empty     *)
(* cache.                                                                  *)
(***************************************************************************)
FetchInputs == {SomeId(1), SomeId(2), SomeId(3), NoId}

InitFetch ==
    /\ cache = EmptyCache
    /\ glog = NoLog
    /\ ncalls = 0
    /\ rtask = <<>>
    /\ \E id \in FetchInputs : ftask = <<NewFetchTask(id)>>
    /\ NoBatch
    /\ NoAux

NextFetch ==
    \/ \E j \in 1..3, outcome \in Outcomes : FetchSub(1, j, outcome)
    \/ FetchJoin(1)

SpecFetch == InitFetch /\ [][NextFetch]_vars

(***************************************************************************)
(* Claims about fetch_comprehensive_film_details.                          *)
(***************************************************************************)
\* The core-details call had yielded nothing when the function returned.
DetailsYieldedNothing(t) ==
    t.joined # <<>> /\ t.joined[1].pc = "returned" /\ t.joined[1].ret.none

\* C8: fetch_comprehensive_film_details never raises: if the core-details
\* sub-request yields nothing it returns an empty record, and on any other
\* error during fetching or normalisation it returns a minimal record
\* containing only the ID.
C8_EmptyWithoutDetailsElseMinimal ==
    \A i \in DOMAIN ftask :
       /\ ftask[i].pc # "raised"
       /\ (ftask[i].pc = "done" /\ ~ftask[i].tmdb_id.none) =>
             IF DetailsYieldedNothing(ftask[i])
             THEN ftask[i].record = EmptyRecord
             ELSE \/ ftask[i].record.kind = "full"
                  \/ ftask[i].record = MinimalRecord(ftask[i].tmdb_id)

\* C23: fetch_comprehensive_film_details returns its record only after all
\* three sub-requests have completed: none of them is still in flight when
\* the record is returned, including when one of them fails.
C23_AllThreeCompletedAtReturn ==
    \A i \in DOMAIN ftask :
       (ftask[i].pc = "done" /\ ~ftask[i].tmdb_id.none) =>
          \A j \in DOMAIN ftask[i].joined : ftask[i].joined[j].pc # "pending"

\* A sub-request that was unavailable when the function returned: its call
\* had returned None or had raised.
Unavailable(c) == c.pc = "raised" \/ (c.pc = "returned" /\ c.ret.none)

\* C24: when core details are available and the credits and/or keywords
\* sub-request is unavailable, the full record is still returned, with the
\* lists derived from the unavailable sub-resource empty and director null.
C24_DegradesToFullRecord ==
    \A i \in DOMAIN ftask :
       LET t == ftask[i] IN
       (/\ t.pc = "done" /\ ~t.tmdb_id.none
        /\ t.joined[1].pc = "returned" /\ ~t.joined[1].ret.none
        /\ Unavailable(t.joined[2]) \/ Unavailable(t.joined[3]))
          => /\ t.record.kind = "full"
             /\ Unavailable(t.joined[2]) =>
                   /\ t.record.directors = <<>> /\ t.record.director = NoStr
                   /\ t.record.writers = <<>> /\ t.record.cast = <<>>
             /\ Unavailable(t.joined[3]) => t.record.keywords = <<>>

(***************************************************************************)
(* process_comprehensive_letterboxd_data: from unique_films to             *)
(* films_enriched.                                                         *)
(***************************************************************************)
FilmKey(title, year) == [title |-> title, year |-> year]

\* The (title, year) rows a watched.csv can hold: a missing Year reads as NaN.
FilmKeys ==
    {FilmKey("Parasite", IntYear(2019)), FilmKey("Parasite", IntYear(2020)),
     FilmKey("Heat", NaN), FilmKey("Lost Reel", NaN)}

\* films_df[['title', 'year']].drop_duplicates(): no key twice
IsUnique(s) == \A i, j \in DOMAIN s : s[i] = s[j] => i = j

UniqueFilmLists ==
    {s \in UNION {[1..n -> FilmKeys] : n \in 1..MaxFilms} : IsUnique(s)}

\* Series.dropna()
RECURSIVE dropna(_)
dropna(ids) ==
    IF ids = <<>> THEN <<>>
    ELSE (IF ids[1].none THEN <<>> ELSE <<ids[1]>>) \o dropna(Tail(ids))

\* (mutant) every value is kept, repeated or not
unique_keeps_all(ids) == ids

\* Series.unique(): the first occurrence of each value, in order
RECURSIVE unique(_)
unique(ids) ==
    IF ids = <<>> THEN <<>>
    ELSE LET front == unique(SubSeq(ids, 1, Len(ids) - 1))
             last == ids[Len(ids)]
         IN IF last \in Range(front) THEN front ELSE Append(front, last)

\* (mutant) gather returns once one of its tasks has finished
gather_done_first(tasks) == \E k \in DOMAIN tasks : tasks[k].pc \in {"done", "raised"}

\* `await asyncio.gather(*tasks)` returns when every task has finished (a task
\* that raised ends it early, which the tasks' own except clauses rule out).
gather_done(tasks) ==
    \/ \A k \in DOMAIN tasks : tasks[k].pc = "done"
    \/ \E k \in DOMAIN tasks : tasks[k].pc = "raised"

gather_raised(tasks) == \E k \in DOMAIN tasks : tasks[k].pc = "raised"

\* pd.DataFrame([m for m in metadata_results if m])
RECURSIVE non_empty(_)
non_empty(records) ==
    IF records = <<>> THEN <<>>
    ELSE (IF records[1].kind = "empty" THEN <<>> ELSE <<records[1]>>)
         \o non_empty(Tail(records))

\* The columns of metadata_df: the keys of its records.
HasColumn_tmdb_id(df) == df # <<>>
HasColumn_title(df) == \E i \in DOMAIN df : df[i].kind = "full"

\* One row of films_enriched: the row of unique_films and, where a record of
\* metadata_df has its tmdb_id, that record (null metadata otherwise).
EnrichedRow(film, tmdb_id, matched, record) ==
    [title |-> film.title, year |-> film.year, tmdb_id |-> tmdb_id,
     matched |-> matched, meta |-> record]

RECURSIVE Matches(_, _, _)
Matches(film, tmdb_id, df) ==
    IF df = <<>> THEN <<>>
    ELSE (IF df[1].tmdb_id = tmdb_id
          THEN <<EnrichedRow(film, tmdb_id, TRUE, df[1])>> ELSE <<>>)
         \o Matches(film, tmdb_id, Tail(df))

\* (mutant) how='inner': a row without a match is dropped
JoinRows_inner(film, tmdb_id, matches) == matches

\* how='left': a row without a match is kept, with null metadata
JoinRows(film, tmdb_id, matches) ==
    IF matches = <<>> THEN <<EnrichedRow(film, tmdb_id, FALSE, EmptyRecord)>>
    ELSE matches

RECURSIVE MergeRows(_, _, _)
MergeRows(films, ids, df) ==
    IF films = <<>> THEN <<>>
    ELSE JoinRows(films[1], ids[1], Matches(films[1], ids[1], df))
         \o MergeRows(Tail(films), Tail(ids), df)

\* pd.merge(unique_films, metadata_df, on='tmdb_id', how='left',
\*          suffixes=('_csv', '_tmdb')): a KeyError when metadata_df has no
\* tmdb_id column, that is, no row.
merge(films, ids, df) ==
    IF ~HasColumn_tmdb_id(df) THEN [rows |-> <<>>, failure |-> "KeyError: 'tmdb_id'"]
    ELSE [rows |-> MergeRows(films, ids, df), failure |-> ""]

\* films_enriched['title'] = title_tmdb.fillna(title_csv)
FillTitle(row) ==
    IF row.matched /\ row.meta.kind = "full"
    THEN [row EXCEPT !.title = row.meta.title] ELSE row

\* The title consolidation.  The suffixes rename a column only where both
\* frames have it: when no record of metadata_df has a title, the merged
\* frame has 'title' and neither 'title_tmdb' nor 'title_csv', and the else
\* branch reads a column that is not there.
consolidate_title(rows, df) ==
    IF HasColumn_title(df)
    THEN [rows |-> [i \in DOMAIN rows |-> FillTitle(rows[i])], failure |-> ""]
    ELSE [rows |-> <<>>, failure |-> "KeyError: 'title_csv'"]

\* tmdb_ids = await asyncio.gather(*resolve_tasks), then the fetch tasks of
\* unique_films['tmdb_id'].dropna().unique() are created.
ResolveGathered ==
    /\ pc = "resolving"
    /\ gather_done(rtask)
    /\ IF gather_raised(rtask)
       THEN /\ pc' = "failed"
            /\ failure' = "Exception"
            /\ UNCHANGED <<tmdb_ids, unique_tmdb_ids, ftask>>
       ELSE /\ tmdb_ids' = [k \in DOMAIN rtask |-> rtask[k].ret]
            /\ unique_tmdb_ids' = unique(dropna(tmdb_ids'))
            /\ ftask' = [j \in DOMAIN unique_tmdb_ids' |->
                            NewFetchTask(unique_tmdb_ids'[j])]
            /\ pc' = "fetching"
            /\ UNCHANGED failure
    /\ UNCHANGED <<cache, getVars, rtask, unique_films, metadata_df, films_enriched,
                   auxVars>>

\* metadata_results = await asyncio.gather(*fetch_tasks), then metadata_df,
\* the merge and the title consolidation.
FetchGathered ==
    /\ pc = "fetching"
    /\ gather_done(ftask)
    /\ IF gather_raised(ftask)
       THEN /\ pc' = "failed"
            /\ failure' = "Exception"
            /\ UNCHANGED <<metadata_df, films_enriched>>
       ELSE LET df == non_empty([j \in DOMAIN ftask |-> ftask[j].record])
                merged == merge(unique_films, tmdb_ids, df)
                titled == consolidate_title(merged.rows, df)
            IN /\ metadata_df' = df
               /\ IF merged.failure # ""
                  THEN /\ pc' = "failed"
                       /\ failure' = merged.failure
                       /\ UNCHANGED films_enriched
                  ELSE IF titled.failure # ""
                  THEN /\ pc' = "failed"
                       /\ failure' = titled.failure
                       /\ films_enriched' = merged.rows
                  ELSE /\ pc' = "analyzing"
                       /\ failure' = ""
                       /\ films_enriched' = titled.rows
    /\ UNCHANGED <<cache, getVars, rtask, ftask, unique_films, tmdb_ids,
                   unique_tmdb_ids, auxVars>>

(***************************************************************************)
(* Spec: one batch on an empty cache.                                      *)
(***************************************************************************)
Init ==
    /\ cache = EmptyCache
    /\ glog = NoLog
    /\ ncalls = 0
    /\ unique_films \in UniqueFilmLists
    /\ rtask = [k \in DOMAIN unique_films |->
                   NewResolveTask(unique_films[k].title, unique_films[k].year)]
    /\ ftask = <<>>
    /\ pc = "resolving"
    /\ tmdb_ids = <<>>
    /\ unique_tmdb_ids = <<>>
    /\ metadata_df = <<>>
    /\ films_enriched = <<>>
    /\ failure = ""
    /\ NoAux

Next ==
    \/ \E k \in 1..MaxFilms, outcome \in Outcomes : ResolveSearch1(k, outcome)
    \/ \E k \in 1..MaxFilms, outcome \in Outcomes : ResolveSearch2(k, outcome)
    \/ ResolveGathered
    \/ \E i \in 1..MaxFilms, j \in 1..3, outcome \in Outcomes : FetchSub(i, j, outcome)
    \/ \E i \in 1..MaxFilms : FetchJoin(i)
    \/ FetchGathered

Spec == Init /\ [][Next]_vars

(***************************************************************************)
(* Claims about the batch.                                                 *)
(***************************************************************************)
\* The left join has returned: films_enriched exists.
Merged == pc = "analyzing" \/ failure = "KeyError: 'title_csv'"

C2_OneFetchPerDistinctId ==
    /\ \A i, j \in DOMAIN ftask : ftask[i].tmdb_id = ftask[j].tmdb_id => i = j
    /\ \A i \in DOMAIN ftask : ~ftask[i].tmdb_id.none

\* Two rows resolved to the same id and its one fetch has made a request.
C2_Witness ==
    /\ Len(tmdb_ids) = 2
    /\ tmdb_ids[1] = tmdb_ids[2]
    /\ ~tmdb_ids[1].none
    /\ Len(ftask) = 1
    /\ ftask[1].tmdb_id = tmdb_ids[1]
    /\ ftask[1].sub[1].pc # "pending"

\* C9: every resolve_tmdb_id task of the batch has completed before the first
\* fetch_comprehensive_film_details task starts, so no fetch request is made
\* while a resolution request is in flight.
C9_ResolveBeforeFetch ==
    ftask # <<>> => \A k \in DOMAIN rtask : rtask[k].pc \in {"done", "raised"}

\* Both resolutions of a batch of two are over and a fetch has made a request.
C9_Witness ==
    /\ Len(rtask) = 2
    /\ \A k \in DOMAIN rtask : rtask[k].calls # <<>>
    /\ \E i \in DOMAIN ftask, j \in 1..3 : ftask[i].sub[j].pc # "pending"

\* C10: a resolution or fetch failure of a single film never aborts the
\* batch: whatever the per-film outcomes, the batch goes on to the
\* statistics.
C10_FilmFailureNeverAborts ==
    pc # "failed"

\* Every resolve_tmdb_id of the batch returned None.
AllUnmatched ==
    /\ tmdb_ids # <<>>
    /\ \A i \in DOMAIN tmdb_ids : tmdb_ids[i].none

\* C11: when the resolver returns None for every unique film (no match, an
\* empty metadata set), the batch reaches the statistics without raising.
C11_AllUnmatchedCompletes ==
    (AllUnmatched /\ pc # "fetching") => pc = "analyzing"

(***************************************************************************)
(* The loading stage: from the CSV files to films_df, unique_films and the *)
(* counts taken from them, as src/backend/app/main.py, src/api/analyze.py  *)
(* and src/frontend/app/api/analyze/route.py each do it.                   *)
(***************************************************************************)
\* One row of a CSV file after the rename; rating 0 is a missing rating.
Row(title, year, rating) == [title |-> title, year |-> year, rating |-> rating]

KeyOf(row) == FilmKey(row.title, row.year)

\* DataFrame.empty: the file is absent or has no row
empty(file) == ~file.present \/ file.rows = <<>>

\* The rows of right with the key of row, in order.
RECURSIVE RatingMatches(_, _)
RatingMatches(row, right) ==
    IF right = <<>> THEN <<>>
    ELSE (IF KeyOf(right[1]) = KeyOf(row)
          THEN <<Row(row.title, row.year, right[1].rating)>> ELSE <<>>)
         \o RatingMatches(row, Tail(right))

\* pd.merge(films_df, ratings_df_renamed, on=['title', 'year'], how='left')
RECURSIVE merge_ratings(_, _)
merge_ratings(left, right) ==
    IF left = <<>> THEN <<>>
    ELSE (IF RatingMatches(left[1], right) = <<>>
          THEN <<Row(left[1].title, left[1].year, 0)>>
          ELSE RatingMatches(left[1], right))
         \o merge_ratings(Tail(left), right)

\* films_df[['title', 'year']].drop_duplicates().reset_index(drop=True)
drop_duplicates(rows) == unique([i \in DOMAIN rows |-> KeyOf(rows[i])])

\* ratings.dropna().value_counts().to_dict()
value_counts(rows) ==
    [r \in {rows[i].rating : i \in DOMAIN rows} \ {0} |->
        Cardinality({i \in DOMAIN rows : rows[i].rating = r})]

\* the rows of diary whose key no row of films has (_merge == 'left_only')
RECURSIVE left_only(_, _)
left_only(diary, films) ==
    IF diary = <<>> THEN <<>>
    ELSE (IF \E i \in DOMAIN films : KeyOf(films[i]) = KeyOf(diary[1])
          THEN <<>> ELSE <<diary[1]>>)
         \o left_only(Tail(diary), films)

LoadFailed(impl, error) == [NotLoaded EXCEPT !.impl = impl, !.failure = error]

\* stats key that the implementation does not compute
NoCount == -1

\* src/backend/app/main.py: watched.csv is required, the ratings are merged
\* into it, total_films = len(films_df).
load_backend(csv) ==
    IF empty(csv.watched) THEN LoadFailed("backend", "ValueError")
    ELSE LET watched == [i \in DOMAIN csv.watched.rows |->
                            Row(csv.watched.rows[i].title, csv.watched.rows[i].year, 0)]
             films == IF ~empty(csv.ratings)
                      THEN merge_ratings(watched, csv.ratings.rows) ELSE watched
         IN [impl |-> "backend", failure |-> "", films_df |-> films,
             unique_films |-> drop_duplicates(films),
             total_films |-> Len(films),
             rating_distribution |-> value_counts(films)]

\* src/api/analyze.py: films_df is ratings.csv renamed; without a ratings.csv
\* it is a frame without columns and films_df[['title', 'year']] is a KeyError.
load_api(csv) ==
    IF empty(csv.ratings) /\ empty(csv.diary) THEN LoadFailed("api", "ValueError")
    ELSE IF ~csv.ratings.present THEN LoadFailed("api", "KeyError")
    ELSE [impl |-> "api", failure |-> "", films_df |-> csv.ratings.rows,
          unique_films |-> drop_duplicates(csv.ratings.rows),
          total_films |-> NoCount,
          rating_distribution |-> value_counts(csv.ratings.rows)]

\* src/frontend/app/api/analyze/route.py: the ratings rows, then the diary
\* rows of the films that have no ratings row; total_films = len(unique_films).
load_route(csv) ==
    IF empty(csv.ratings) /\ empty(csv.diary) THEN LoadFailed("route", "ValueError")
    ELSE LET rated == IF ~empty(csv.ratings) THEN csv.ratings.rows ELSE <<>>
             films == IF empty(csv.diary) THEN rated
                      ELSE IF rated = <<>> THEN csv.diary.rows
                      ELSE rated \o left_only(csv.diary.rows, rated)
         IN [impl |-> "route", failure |-> "", films_df |-> films,
             unique_films |-> drop_duplicates(films),
             total_films |-> Len(drop_duplicates(films)),
             rating_distribution |-> <<>>]

(***************************************************************************)
(* SpecLoad: one archive, loaded by one of the three implementations.      *)
(***************************************************************************)
\* rows of one CSV file
MaxRows == 2

LoadKeys == {FilmKey("Parasite", IntYear(2019)), FilmKey("Heat", IntYear(1995))}
LoadRatings == {4, 5}

SeqsUpTo(S, n) == UNION {[1..m -> S] : m \in 0..n}

WatchedFiles ==
    {AbsentFile} \cup {CsvFile(r) : r \in SeqsUpTo({Row(k.title, k.year, 0) : k \in LoadKeys}, MaxRows)}
RatingsFiles ==
    {AbsentFile} \cup
    {CsvFile(r) : r \in SeqsUpTo({Row(k.title, k.year, g) : k \in LoadKeys, g \in LoadRatings}, MaxRows)}
DiaryFiles ==
    {AbsentFile} \cup
    {CsvFile(r) : r \in SeqsUpTo({Row(k.title, k.year, 0) : k \in LoadKeys}, 1)}

InitLoad ==
    /\ cache = EmptyCache
    /\ glog = NoLog
    /\ ncalls = 0
    /\ rtask = <<>>
    /\ ftask = <<>>
    /\ NoBatch
    /\ \E w \in WatchedFiles, r \in RatingsFiles, d \in DiaryFiles :
          csv_files = [watched |-> w, ratings |-> r, diary |-> d]
    /\ loaded = NotLoaded
    /\ pool = NoPool
    /\ gtask = <<>>
    /\ first_write = <<>>
    /\ now = 0
    /\ progress = <<>>
    /\ req = <<>>
    /\ stats = NoStats
    /\ diary_df = NoDiary

LoadBackend ==
    /\ loaded.impl = ""
    /\ loaded' = load_backend(csv_files)
    /\ UNCHANGED <<cache, getVars, rtask, ftask, batchVars, csv_files, pool,
                   cacheVars, progressVars, statVars>>

LoadApi ==
    /\ loaded.impl = ""
    /\ loaded' = load_api(csv_files)
    /\ UNCHANGED <<cache, getVars, rtask, ftask, batchVars, csv_files, pool,
                   cacheVars, progressVars, statVars>>

LoadRoute ==
    /\ loaded.impl = ""
    /\ loaded' = load_route(csv_files)
    /\ UNCHANGED <<cache, getVars, rtask, ftask, batchVars, csv_files, pool,
                   cacheVars, progressVars, statVars>>

NextLoad ==
    \/ LoadBackend
    \/ LoadApi
    \/ LoadRoute

SpecLoad == InitLoad /\ [][NextLoad]_vars

(***************************************************************************)
(* Claims about the loading stage.                                         *)
(***************************************************************************)
BothEmpty == empty(csv_files.ratings) /\ empty(csv_files.diary)

\* C12: the analysis aborts with the fatal input error exactly when both
\* ratings and diary are absent or empty; with one of them present and
\* non-empty the request is not rejected and the pipeline goes on to the
\* resolution.
C12_FatalExactlyWhenBothEmpty ==
    loaded.impl \in {"backend", "api"} =>
       /\ loaded.failure = "ValueError" <=> BothEmpty
       /\ ~BothEmpty => loaded.failure = ""

\* The rating rows of ratings.csv, as the raw entries.
RawRatings == IF csv_files.ratings.present THEN csv_files.ratings.rows ELSE <<>>

\* C15: total_films counts each unique (title, year) key once, while
\* rating_distribution counts every raw rating row.
C15_FilmsByKeyRatingsByRow ==
    (loaded.impl \in {"backend", "route"} /\ loaded.failure = "") =>
       /\ loaded.total_films = Len(loaded.unique_films)
       /\ loaded.impl = "backend" =>
             loaded.rating_distribution = value_counts(RawRatings)

(***************************************************************************)
(* The connections of the session: aiohttp.TCPConnector(limit_per_host=20) *)
(* under every session.get of tmdb_get.  The requests are counted by where *)
(* they stand; which task made them does not matter to the connector.      *)
(***************************************************************************)
\* TCPConnector(limit_per_host=20)
limit_per_host == 20

\* session.get calls made through the one session
MaxRequests == 22

\* session.get: the request takes a connection to the host if one is free
\* and nobody is queued for one, and waits for one otherwise.
PoolRequest ==
    /\ pool.idle > 0
    /\ pool' = IF pool.open < limit_per_host /\ pool.waiting = 0
               THEN [pool EXCEPT !.idle = @ - 1, !.open = @ + 1]
               ELSE [pool EXCEPT !.idle = @ - 1, !.waiting = @ + 1]
    /\ UNCHANGED <<cache, getVars, rtask, ftask, batchVars, loadVars,
                   cacheVars, progressVars, statVars>>

\* A waiting request gets the connection another one gave back.
PoolAcquire ==
    /\ pool.waiting > 0
    /\ pool.open < limit_per_host
    /\ pool' = [pool EXCEPT !.waiting = @ - 1, !.open = @ + 1]
    /\ UNCHANGED <<cache, getVars, rtask, ftask, batchVars, loadVars,
                   cacheVars, progressVars, statVars>>

\* The response has been read (or the request failed): the connection is
\* given back.
PoolRelease ==
    /\ pool.open > 0
    /\ pool' = [pool EXCEPT !.open = @ - 1, !.done = @ + 1]
    /\ UNCHANGED <<cache, getVars, rtask, ftask, batchVars, loadVars,
                   cacheVars, progressVars, statVars>>

\* The session is built without a timeout argument, so the library's default
\* total timeout of the request (300 s, the wait for a connection included)
\* applies: a request still waiting when it runs out fails with TimeoutError.
PoolWaitTimeout ==
    /\ pool.waiting > 0
    /\ pool' = [pool EXCEPT !.waiting = @ - 1, !.timed_out = @ + 1]
    /\ UNCHANGED <<cache, getVars, rtask, ftask, batchVars, loadVars,
                   cacheVars, progressVars, statVars>>

InitPool ==
    /\ cache = EmptyCache
    /\ glog = NoLog
    /\ ncalls = 0
    /\ rtask = <<>>
    /\ ftask = <<>>
    /\ NoBatch
    /\ csv_files = [watched |-> AbsentFile, ratings |-> AbsentFile, diary |-> AbsentFile]
    /\ loaded = NotLoaded
    /\ pool = [NoPool EXCEPT !.idle = MaxRequests]
    /\ gtask = <<>>
    /\ first_write = <<>>
    /\ now = 0
    /\ progress = <<>>
    /\ req = <<>>
    /\ stats = NoStats
    /\ diary_df = NoDiary

NextPool ==
    \/ PoolRequest
    \/ PoolAcquire
    \/ PoolRelease
    \/ PoolWaitTimeout

SpecPool == InitPool /\ [][NextPool]_vars

\* C13: at every moment at most limit_per_host connections to the provider
\* are open, over all requests of the session; a request that would exceed
\* the cap waits, and is never failed because of the cap.
C13_AtMostCapAndNeverFailed ==
    /\ pool.open <= limit_per_host
    /\ pool.timed_out = 0

\* The part of C13 that holds: the cap itself.
C13_AtMostCap ==
    pool.open <= limit_per_host

(***************************************************************************)
(* The record of src/api/analyze.py's fetch_comprehensive_film_details,    *)
(* and SpecDecade: the record built from details with any release date.    *)
(***************************************************************************)
\* release_date[:4]
FirstFour(release_date) == SubSeq(release_date, 1, Min(4, Len(release_date)))

\* src/api/analyze.py: decade = f"{(int(release_date[:4]) // 10) * 10}s" if
\* release_date else None, with no try around the int().
decade_of_api(release_date) ==
    IF release_date = <<>> THEN [decade |-> NoStr, raised |-> FALSE]
    ELSE IF IntParses(FirstFour(release_date))
    THEN [decade |-> Str(ToString((IntOf(FirstFour(release_date)) \div 10) * 10) \o "s"),
          raised |-> FALSE]
    ELSE [decade |-> NoStr, raised |-> TRUE]

\* src/api/analyze.py: what follows the gather; the record has no writers and
\* no keywords.
fetch_record_api(tmdb_id, details, credits, keywords) ==
    IF details.none THEN [record |-> EmptyRecord, raised |-> FALSE]
    ELSE IF NormalisationRaises(credits) \/ decade_of_api(details.data.release_date).raised
         THEN [record |-> EmptyRecord, raised |-> TRUE]
         ELSE [record |-> [FullRecord(tmdb_id, details, credits, keywords)
                              EXCEPT !.writers = <<>>, !.keywords = <<>>],
               raised |-> FALSE]

\* FetchJoin as src/api/analyze.py has it.
FetchJoinApi(i) ==
    /\ i \in DOMAIN ftask
    /\ ftask[i].pc = "gather"
    /\ SubRaised(ftask[i]) \/ SubAllReturned(ftask[i])
    /\ LET t == ftask[i]
           out == fetch_except(t.tmdb_id,
                     IF SubRaised(t) THEN [record |-> EmptyRecord, raised |-> TRUE]
                     ELSE fetch_record_api(t.tmdb_id, t.sub[1].ret, t.sub[2].ret, t.sub[3].ret))
       IN ftask' = [ftask EXCEPT ![i].pc = IF out.raised THEN "raised" ELSE "done",
                                 ![i].joined = t.sub,
                                 ![i].record = out.record]
    /\ UNCHANGED <<cache, getVars, rtask, batchVars, auxVars>>

\* characters of a release date
MaxDateLen == 4

DateChars == {"1", "9", "4", "x"}

\* The release dates: every string of up to MaxDateLen characters (the empty
\* one is also the missing date), and one full date.
ReleaseDates ==
    SeqsUpTo(DateChars, MaxDateLen)
    \cup {Chars("1", "9", "9", "4", <<"-", "0", "9", "-", "2", "3">>)}

Returned3(details) ==
    <<[pc |-> "returned", ret |-> Some(details)],
      [pc |-> "returned", ret |-> Some(MovieCredits(1))],
      [pc |-> "returned", ret |-> Some(MovieKeywords(1))]>>

\* The fetch task of id 1 at its gather, the three calls having returned.
InitDecade ==
    /\ cache = EmptyCache
    /\ glog = NoLog
    /\ ncalls = 0
    /\ rtask = <<>>
    /\ \E d \in ReleaseDates :
          ftask = <<[NewFetchTask(SomeId(1)) EXCEPT
                        !.sub = Returned3([MovieDetails(1) EXCEPT !.release_date = d])]>>
    /\ NoBatch
    /\ NoAux

NextDecade ==
    \/ FetchJoin(1)
    \/ FetchJoinApi(1)

SpecDecade == InitDecade /\ [][NextDecade]_vars

\* The release date the details of task t carry.
DateOf(t) == t.sub[1].ret.data.release_date

AllDigits(cs) == cs # <<>> /\ \A i \in DOMAIN cs : cs[i] \in {"1", "9", "4"}

\* C14: the decade is floor(year / 10) * 10 followed by 's', the year being
\* the first four characters of the release date ("1994-09-23" gives
\* "1990s"); for a missing, empty or unparseable date it is null, nothing is
\* raised and the other fields of the record are still produced.
C14_DecadeOrNull ==
    \A i \in DOMAIN ftask :
       ftask[i].pc # "gather" =>
          /\ ftask[i].pc = "done"
          /\ ftask[i].record.kind = "full"
          /\ ftask[i].record.title = "Parasite"
          /\ DateOf(ftask[i]) = Chars("1", "9", "9", "4", <<"-", "0", "9", "-", "2", "3">>)
                => ftask[i].record.decade = Str("1990s")
          /\ DateOf(ftask[i]) = <<"1", "9">> => ftask[i].record.decade = Str("10s")
          /\ ~AllDigits(FirstFour(DateOf(ftask[i]))) => ftask[i].record.decade = NoStr

\* The same, of the record main.py builds (the task is joined by FetchJoin
\* alone when no date is unparseable; here: whenever the record is full).
C14_DecadeOfFullRecord ==
    \A i \in DOMAIN ftask :
       (ftask[i].pc = "done" /\ ftask[i].record.kind = "full") =>
          /\ DateOf(ftask[i]) = Chars("1", "9", "9", "4", <<"-", "0", "9", "-", "2", "3">>)
                => ftask[i].record.decade = Str("1990s")
          /\ ~AllDigits(FirstFour(DateOf(ftask[i]))) => ftask[i].record.decade = NoStr

(***************************************************************************)
(* Progress reporting: update_progress and its readers, for analysis       *)
(* requests that run concurrently.  A request is followed from one         *)
(* reporting point to the next; "backend" is src/backend/app/main.py (one  *)
(* process-wide dict), "api" is src/api/analyze.py with src/api/progress.py*)
(* (one file per session id).                                              *)
(***************************************************************************)
\* analysis requests running at the same time
MaxAnalyses == 2

Archives == {"zipA", "zipB"}

\* hashlib.md5(file_bytes).hexdigest(): equal bytes, equal digest
md5(archive) == IF archive = "zipA" THEN "0cc175b9" ELSE "92eb5ffe"

\* The stages reported, in order (successive reports of one stage are one).
Stages ==
    <<"starting", "loading", "processing", "tmdb_matching", "tmdb_metadata",
      "analyzing", "complete">>

\* A progress record; writer is the request whose update_progress wrote it
\* (0: nobody: the initial 'idle' record).  Message, counts and timestamp are
\* left out.
ProgressRecord(stage, writer) == [stage |-> stage, writer |-> writer]

\* Where the records of a request are kept: the one global dict, or the file
\* named after the session id.
ProgressKey(r) == IF r.impl = "backend" THEN "current_progress" ELSE md5(r.archive)

\* update_progress(stage, ...) of request k
update_progress(store, k, stage) ==
    [key \in DOMAIN store \cup {ProgressKey(req[k])} |->
        IF key = ProgressKey(req[k]) THEN ProgressRecord(stage, k) ELSE store[key]]

\* wrote: the stages of the records the request has written, in order;
\* cause: what made the analysis fail ("": nothing yet).
NewRequest(impl, archive) ==
    [impl |-> impl, archive |-> archive, at |-> 0, status |-> "running", seen |-> 0,
     polled |-> FALSE, wrote |-> <<>>, cause |-> ""]

\* Where the request stands once 'complete' is written: in "backend" the
\* handler writes it after the statistics are there and returns them; in
\* "api" process_comprehensive_letterboxd_data writes it, and the handler has
\* yet to serialise and send the response.
after_complete(impl) == IF impl = "backend" THEN "success" ELSE "responding"

\* The next update_progress call of request k on its way through the
\* analysis.  In "api" the call opens and writes a file, which can fail with
\* OSError; nothing catches it before the handler's except clause.
Report(k, outcome) ==
    /\ k \in DOMAIN req
    /\ req[k].status = "running"
    /\ outcome = "ok" \/ req[k].impl = "api"
    /\ IF outcome = "ok"
       THEN /\ progress' = update_progress(progress, k, Stages[req[k].at + 1])
            /\ req' = [req EXCEPT ![k].at = @ + 1,
                                  ![k].wrote = Append(@, Stages[req[k].at + 1]),
                                  ![k].status = IF req[k].at + 1 = Len(Stages)
                                                THEN after_complete(req[k].impl)
                                                ELSE "running"]
       ELSE /\ req' = [req EXCEPT ![k].status = "failing", ![k].cause = "report"]
            /\ UNCHANGED progress
    /\ UNCHANGED <<cache, getVars, rtask, ftask, batchVars, loadVars, pool, cacheVars,
                   statVars>>

\* except Exception as e: ... update_progress(session_id, "error", error_msg):
\* the answer is the error; the report of it can fail as well.
ReportError(k, outcome) ==
    /\ k \in DOMAIN req
    /\ req[k].status = "failing"
    /\ outcome = "ok" \/ req[k].impl = "api"
    /\ IF outcome = "ok"
       THEN /\ progress' = update_progress(progress, k, "error")
            /\ req' = [req EXCEPT ![k].status = "error", ![k].wrote = Append(@, "error")]
       ELSE /\ req' = [req EXCEPT ![k].status = "crashed"]
            /\ UNCHANGED progress
    /\ UNCHANGED <<cache, getVars, rtask, ftask, batchVars, loadVars, pool, cacheVars,
                   statVars>>

\* The analysis of request k raises between two reports (no watched.csv, a
\* KeyError of the statistics, ...): the handler's except clause is next.
Fail(k) ==
    /\ k \in DOMAIN req
    /\ req[k].status = "running"
    /\ req[k].at >= 1
    /\ req' = [req EXCEPT ![k].status = "failing", ![k].cause = "analysis"]
    /\ UNCHANGED <<cache, getVars, rtask, ftask, batchVars, loadVars, pool, cacheVars,
                   progress, statVars>>

\* "api": send_response(200) ... self.wfile.write(json.dumps(response, ...)),
\* inside the handler's try; the write raises when the client has gone.
Respond(k, outcome) ==
    /\ k \in DOMAIN req
    /\ req[k].status = "responding"
    /\ req' = IF outcome = "ok"
              THEN [req EXCEPT ![k].status = "success"]
              ELSE [req EXCEPT ![k].status = "failing", ![k].cause = "response"]
    /\ UNCHANGED <<cache, getVars, rtask, ftask, batchVars, loadVars, pool, cacheVars,
                   progress, statVars>>

\* The client of request k polls: GET /api/progress returns current_progress;
\* progress.py returns the file of the session id, or 'idle' without one.
Poll(k) ==
    /\ k \in DOMAIN req
    /\ req' = [req EXCEPT ![k].polled = TRUE,
                          ![k].seen = IF ProgressKey(req[k]) \in DOMAIN progress
                                      THEN progress[ProgressKey(req[k])].writer ELSE 0]
    /\ UNCHANGED <<cache, getVars, rtask, ftask, batchVars, loadVars, pool, cacheVars,
                   progress, statVars>>

InitProgress ==
    /\ cache = EmptyCache
    /\ glog = NoLog
    /\ ncalls = 0
    /\ rtask = <<>>
    /\ ftask = <<>>
    /\ NoBatch
    /\ csv_files = [watched |-> AbsentFile, ratings |-> AbsentFile, diary |-> AbsentFile]
    /\ loaded = NotLoaded
    /\ pool = NoPool
    /\ gtask = <<>>
    /\ first_write = <<>>
    /\ now = 0
    /\ stats = NoStats
    /\ diary_df = NoDiary
    /\ \E impl \in {"backend", "api"}, a \in [1..MaxAnalyses -> Archives] :
          /\ req = [k \in 1..MaxAnalyses |-> NewRequest(impl, a[k])]
          /\ progress = IF impl = "backend"
                        THEN [key \in {"current_progress"} |-> ProgressRecord("idle", 0)]
                        ELSE <<>>

NextProgress ==
    \/ \E k \in 1..MaxAnalyses, outcome \in {"ok", "oserror"} : Report(k, outcome)
    \/ \E k \in 1..MaxAnalyses, outcome \in {"ok", "oserror"} : ReportError(k, outcome)
    \/ \E k \in 1..MaxAnalyses : Poll(k)
    \/ \E k \in 1..MaxAnalyses : Fail(k)
    \/ \E k \in 1..MaxAnalyses, outcome \in {"ok", "raise"} : Respond(k, outcome)

SpecProgress == InitProgress /\ [][NextProgress]_vars

\* C16: a failure to write a progress report never aborts the analysis: the
\* request goes on and returns its statistics.
C16_ReportFailureNotFatal ==
    \A k \in DOMAIN req : req[k].cause # "report"

\* C17: a progress record read for one request was written by that request,
\* for any interleaving of two concurrent requests (byte-identical archives
\* included).
C17_NoCrossContamination ==
    \A k \in DOMAIN req : req[k].polled => req[k].seen \in {0, k}

\* The request is over: the response has been sent, or the handler has died.
Over(r) == r.status \in {"success", "error", "crashed"}

\* C29: every analysis request that has started reporting ends with a
\* terminal progress record: 'complete' if and only if statistics were
\* returned, 'error' if and only if the analysis failed, and the request
\* writes no further record after its terminal one.
C29_EndsWithOneTerminalRecord ==
    \A k \in DOMAIN req :
       LET r == req[k] IN
       /\ (Over(r) /\ r.wrote # <<>>) =>
             /\ r.wrote[Len(r.wrote)] = "complete" <=> r.status = "success"
             /\ r.wrote[Len(r.wrote)] = "error" <=> r.status # "success"
       /\ \A i \in 1..(Len(r.wrote) - 1) : r.wrote[i] \notin {"complete", "error"}

(***************************************************************************)
(* tmdb_get statement by statement: between two awaits of one call the     *)
(* other calls run.  SpecCache: calls on one shared cache directory.       *)
(***************************************************************************)
\* tmdb_get calls of one run
MaxGetTasks == 3

\* asyncio.sleep(0.05): the delay is the unit of time; the clock stops at
\* MaxTime
Delay == 1
MaxTime == 2

CacheKeys == {SearchKey("Parasite", 0), MovieKey("movie", 1)}

\* The file between open(cache_file, 'w'), which truncates it, and the close
\* that flushes what f.write buffered: it exists and does not parse.
PartialFile == [state |-> "partial", data |-> EmptyPayload]

\* What the provider answers once its data has changed (a vote more, another
\* ranking).
ProviderChanged(key) == [Provider(key) EXCEPT !.runtime = @ + 1]

CacheOutcomes == {"ok", "ok_changed", "client_error", "bad_json"}

\* where a call goes once response.json() has given the data
after_response == "open"

\* A call starts: it runs up to its first await, cache_file.exists() included,
\* and session.get(...) too where there is no file.  fetched_before: the calls
\* of the same key that had returned a response of the network when this one
\* started.  issued, issued_at: whether and when the call went to the network.
GetStart(key) ==
    /\ Len(gtask) < MaxGetTasks
    /\ gtask' = Append(gtask,
          [key |-> key,
           pc |-> IF key \in DOMAIN cache THEN "read" ELSE "request",
           data |-> EmptyPayload, ret |-> None, raised |-> FALSE,
           from_cache |-> FALSE, saw_partial |-> FALSE, wrote |-> FALSE,
           issued |-> key \notin DOMAIN cache,
           issued_at |-> IF key \in DOMAIN cache THEN 0 ELSE now,
           slept_from |-> 0,
           fetched_before |-> {j \in DOMAIN gtask :
                                  /\ gtask[j].key = key
                                  /\ gtask[j].pc = "done"
                                  /\ ~gtask[j].from_cache
                                  /\ ~gtask[j].ret.none}])
    /\ UNCHANGED <<cache, first_write, now, getVars, rtask, ftask, batchVars, loadVars,
                   pool, progressVars, statVars>>

\* async with aiofiles.open(cache_file, 'r') as f: return json.loads(await
\* f.read()); except Exception: pass
GetRead(k) ==
    /\ k \in DOMAIN gtask
    /\ gtask[k].pc = "read"
    /\ LET file == FileAt(cache, gtask[k].key) IN
       gtask' = IF JsonLoadable(file)
                THEN [gtask EXCEPT ![k].pc = "done", ![k].from_cache = TRUE,
                                   ![k].ret = Some(JsonLoad(file))]
                ELSE [gtask EXCEPT ![k].pc = "request",
                                   ![k].issued = TRUE, ![k].issued_at = now,
                                   ![k].saw_partial = (file.state = "partial")]
    /\ UNCHANGED <<cache, first_write, now, getVars, rtask, ftask, batchVars, loadVars,
                   pool, progressVars, statVars>>

\* async with session.get(...) as response: response.raise_for_status();
\* data = await response.json()
GetResponse(k, outcome) ==
    /\ k \in DOMAIN gtask
    /\ gtask[k].pc = "request"
    /\ gtask' =
          CASE outcome = "ok" ->
                  [gtask EXCEPT ![k].pc = after_response,
                                ![k].data = Provider(gtask[k].key)]
            [] outcome = "ok_changed" ->
                  [gtask EXCEPT ![k].pc = after_response,
                                ![k].data = ProviderChanged(gtask[k].key)]
            [] outcome = "client_error" ->
                  [gtask EXCEPT ![k].pc = "done"]
            [] OTHER ->
                  [gtask EXCEPT ![k].pc = "done", ![k].raised = TRUE]
    /\ UNCHANGED <<cache, first_write, now, getVars, rtask, ftask, batchVars, loadVars,
                   pool, progressVars, statVars>>

\* aiofiles.open(cache_file, 'w', ...): the file is created or truncated
GetOpenWrite(k) ==
    /\ k \in DOMAIN gtask
    /\ gtask[k].pc = "open"
    /\ cache' = WriteFile(cache, gtask[k].key, PartialFile)
    /\ gtask' = [gtask EXCEPT ![k].pc = "write"]
    /\ UNCHANGED <<first_write, now, getVars, rtask, ftask, batchVars, loadVars,
                   pool, progressVars, statVars>>

\* await f.write(json.dumps(data, ...)) and the close at the end of the with
GetWrite(k) ==
    /\ k \in DOMAIN gtask
    /\ gtask[k].pc = "write"
    /\ cache' = WriteFile(cache, gtask[k].key, JsonDump(gtask[k].data))
    /\ first_write' = IF gtask[k].key \in DOMAIN first_write THEN first_write
                      ELSE WriteFile(first_write, gtask[k].key, JsonDump(gtask[k].data))
    /\ gtask' = [gtask EXCEPT ![k].pc = "sleep", ![k].wrote = TRUE,
                              ![k].slept_from = now]
    /\ UNCHANGED <<now, getVars, rtask, ftask, batchVars, loadVars, pool, progressVars,
                   statVars>>

\* await asyncio.sleep(0.05); return data
GetReturn(k) ==
    /\ k \in DOMAIN gtask
    /\ gtask[k].pc = "sleep"
    /\ now >= gtask[k].slept_from + Delay
    /\ gtask' = [gtask EXCEPT ![k].pc = "done", ![k].ret = Some(gtask[k].data)]
    /\ UNCHANGED <<cache, first_write, now, getVars, rtask, ftask, batchVars, loadVars,
                   pool, progressVars, statVars>>

\* Time passes while a call is under way.
Tick ==
    /\ now < MaxTime
    /\ \E k \in DOMAIN gtask : gtask[k].pc # "done"
    /\ now' = now + 1
    /\ UNCHANGED <<cache, gtask, first_write, getVars, rtask, ftask, batchVars,
                   loadVars, pool, progressVars, statVars>>

InitCache ==
    /\ cache = EmptyCache
    /\ glog = NoLog
    /\ ncalls = 0
    /\ rtask = <<>>
    /\ ftask = <<>>
    /\ NoBatch
    /\ csv_files = [watched |-> AbsentFile, ratings |-> AbsentFile, diary |-> AbsentFile]
    /\ loaded = NotLoaded
    /\ pool = NoPool
    /\ gtask = <<>>
    /\ first_write = <<>>
    /\ now = 0
    /\ progress = <<>>
    /\ req = <<>>
    /\ stats = NoStats
    /\ diary_df = NoDiary

NextCache ==
    \/ \E key \in CacheKeys : GetStart(key)
    \/ \E k \in 1..MaxGetTasks : GetRead(k)
    \/ \E k \in 1..MaxGetTasks, outcome \in CacheOutcomes : GetResponse(k, outcome)
    \/ \E k \in 1..MaxGetTasks : GetOpenWrite(k)
    \/ \E k \in 1..MaxGetTasks : GetWrite(k)
    \/ \E k \in 1..MaxGetTasks : GetReturn(k)
    \/ Tick

SpecCache == InitCache /\ [][NextCache]_vars

(***************************************************************************)
(* Claims about the cache under concurrent calls.                          *)
(***************************************************************************)
\* C18: a cache entry, once written, is never changed: what is stored under
\* a key after its first write stays the same.
C18_EntryImmutable ==
    \A key \in DOMAIN first_write : FileAt(cache, key) = first_write[key]

\* C19: no call reading a cache entry observes a partially written entry of
\* another call that is in the middle of writing the same key.
C19_NoPartialRead ==
    \A k \in DOMAIN gtask : ~gtask[k].saw_partial

\* A call returned the response of a successful network fetch.
Fetched(t) == t.pc = "done" /\ ~t.from_cache /\ ~t.ret.none

\* C20: on a successful network fetch the response is written under the
\* request's key before tmdb_get returns, so that every call for the same
\* request that starts after that return is served from the cache.
C20_WrittenBeforeReturnThenServed ==
    \A k \in DOMAIN gtask :
       /\ Fetched(gtask[k]) => gtask[k].wrote
       /\ gtask[k].fetched_before # {} =>
             /\ gtask[k].pc \in {"read", "done"}
             /\ gtask[k].pc = "done" => gtask[k].from_cache

\* The first half of C20 alone.
C20_WrittenBeforeReturn ==
    \A k \in DOMAIN gtask : Fetched(gtask[k]) => gtask[k].wrote

\* C21: across all concurrent calls, two network requests to the provider
\* are never issued less than the delay apart.
C21_MinimumSpacing ==
    \A j, k \in DOMAIN gtask :
       (j < k /\ gtask[j].issued /\ gtask[k].issued)
          => \/ gtask[k].issued_at - gtask[j].issued_at >= Delay
             \/ gtask[j].issued_at - gtask[k].issued_at >= Delay

\* A call went to the network and was answered with the payload.
Answered(t) == t.issued /\ (t.pc \in {"open", "write", "sleep"} \/ Fetched(t))

\* C28: within one batch at most one network request is issued per cache
\* key: when several concurrent calls need the same key, only one of them
\* goes to the network and the others are served from the cache.
C28_OneRequestPerKey ==
    \A j, k \in DOMAIN gtask :
       (j < k /\ gtask[j].key = gtask[k].key)
          => ~(Answered(gtask[j]) /\ Answered(gtask[k]))

(***************************************************************************)
(* Binge detection over the diary.  SpecBinge: one diary, examined once.   *)
(***************************************************************************)
\* diary entries of one archive
MaxDiary == 4
\* the days on which a film was watched run from 0 to MaxDay
MaxDay == 5

\* diary_df['parsed_date']: pd.to_datetime(..., errors='coerce') of a
\* 'Watched Date': midnight of a day, or NaT where the text is no date.
NaT == [nat |-> TRUE, day |-> 0]
Date(day) == [nat |-> FALSE, day |-> day]
ParsedDates == {NaT} \cup {Date(d) : d \in 0..MaxDay}

\* the order of sort_values: ascending, NaT last
DateLeq(a, b) == b.nat \/ (~a.nat /\ a.day <= b.day)

RECURSIVE insert_sorted(_, _)
insert_sorted(sorted, d) ==
    IF sorted = <<>> THEN <<d>>
    ELSE IF DateLeq(sorted[1], d) THEN <<sorted[1]>> \o insert_sorted(Tail(sorted), d)
         ELSE <<d>> \o sorted

\* diary_df.sort_values('parsed_date')
RECURSIVE sort_values(_)
sort_values(dates) ==
    IF dates = <<>> THEN <<>>
    ELSE insert_sorted(sort_values(SubSeq(dates, 1, Len(dates) - 1)), dates[Len(dates)])

\* if time_diff <= 48
window == 48

\* (row['parsed_date'] - current_session[-1]['parsed_date']).total_seconds()
\* / 3600 <= 48; with a NaT the difference is NaT, its seconds are nan and
\* the comparison is false
within_window(prev, row) ==
    ~prev.nat /\ ~row.nat /\ 24 * (row.day - prev.day) <= window

\* for i, row in diary_sorted.iterrows(): ... , from the empty session
RECURSIVE binge_loop(_)
binge_loop(rows) ==
    IF rows = <<>> THEN [current_session |-> <<>>, binge_sessions |-> <<>>]
    ELSE LET st == binge_loop(SubSeq(rows, 1, Len(rows) - 1))
             row == rows[Len(rows)]
         IN IF st.current_session = <<>>
            THEN [st EXCEPT !.current_session = <<row>>]
            ELSE IF within_window(st.current_session[Len(st.current_session)], row)
                 THEN [st EXCEPT !.current_session = Append(@, row)]
                 ELSE [current_session |-> <<row>>,
                       binge_sessions |->
                          IF Len(st.current_session) >= 2
                          THEN Append(st.binge_sessions, Len(st.current_session))
                          ELSE st.binge_sessions]

\* (mutant) the session open at the end of the loop is dropped
check_last_session_skipped(st) == st.binge_sessions

\* # Check last session
check_last_session(st) ==
    IF Len(st.current_session) >= 2
    THEN Append(st.binge_sessions, Len(st.current_session))
    ELSE st.binge_sessions

RECURSIVE sum(_)
sum(xs) == IF xs = <<>> THEN 0 ELSE xs[1] + sum(Tail(xs))

RECURSIVE max(_)
max(xs) == IF Len(xs) = 1 THEN xs[1]
           ELSE LET m == max(Tail(xs)) IN IF xs[1] >= m THEN xs[1] ELSE m

\* stats['binge_analysis'], set only if there is a session
binge_analysis(dates) ==
    LET binge_sessions == check_last_session(binge_loop(sort_values(dates)))
    IN IF binge_sessions = <<>> THEN NoBinge
       ELSE [present |-> TRUE,
             total_sessions |-> Len(binge_sessions),
             longest_session |-> max(binge_sessions),
             total_binge_films |-> sum(binge_sessions)]

\* if not diary_df.empty and 'parsed_date' in diary_df.columns: ...
BingeDetect ==
    /\ ~diary_df.examined
    /\ diary_df' = [diary_df EXCEPT
                       !.examined = TRUE,
                       !.binge_analysis = IF diary_df.dates = <<>> THEN NoBinge
                                          ELSE binge_analysis(diary_df.dates)]
    /\ UNCHANGED <<cache, getVars, rtask, ftask, batchVars, loadVars, pool, cacheVars,
                   progressVars, stats>>

InitBinge ==
    /\ cache = EmptyCache
    /\ glog = NoLog
    /\ ncalls = 0
    /\ rtask = <<>>
    /\ ftask = <<>>
    /\ NoBatch
    /\ csv_files = [watched |-> AbsentFile, ratings |-> AbsentFile, diary |-> AbsentFile]
    /\ loaded = NotLoaded
    /\ pool = NoPool
    /\ gtask = <<>>
    /\ first_write = <<>>
    /\ now = 0
    /\ progress = <<>>
    /\ req = <<>>
    /\ stats = NoStats
    /\ \E dates \in SeqsUpTo(ParsedDates, MaxDiary) :
          diary_df = [NoDiary EXCEPT !.dates = dates]

NextBinge == BingeDetect

SpecBinge == InitBinge /\ [][NextBinge]_vars

\* The diary in watched-date order.
InOrder == sort_values(diary_df.dates)

\* The entries a..b of the diary in order are a maximal run: each is at most
\* 48 hours after the one before it, and the run can be extended on neither
\* side.
IsRun(a, b) ==
    /\ a <= b
    /\ \A i \in a..(b - 1) : within_window(InOrder[i], InOrder[i + 1])
    /\ a = 1 \/ ~within_window(InOrder[a - 1], InOrder[a])
    /\ b = Len(InOrder) \/ ~within_window(InOrder[b], InOrder[b + 1])

\* The runs of two entries or more.
Sessions ==
    {ab \in (1..Len(InOrder)) \X (1..Len(InOrder)) : IsRun(ab[1], ab[2]) /\ ab[1] < ab[2]}

\* C30: binge detection partitions the diary entries, in watched-date order,
\* into maximal runs in which each entry is at most 48 hours after the one
\* before; exactly the runs of two entries or more are the sessions (the last
\* run included): total_sessions is their number, longest_session their
\* greatest length, total_binge_films the sum of their lengths, which never
\* exceeds the number of diary entries.
C30_SessionsAreMaximalRuns ==
    diary_df.examined =>
       LET b == diary_df.binge_analysis IN
       /\ \A i \in 1..(Len(InOrder) - 1) : DateLeq(InOrder[i], InOrder[i + 1])
       /\ \A d \in ParsedDates :
             Cardinality({i \in DOMAIN InOrder : InOrder[i] = d})
                = Cardinality({i \in DOMAIN diary_df.dates : diary_df.dates[i] = d})
       /\ b.present <=> Sessions # {}
       /\ b.total_sessions = Cardinality(Sessions)
       /\ \A ab \in Sessions : ab[2] - ab[1] + 1 <= b.longest_session
       /\ b.present => \E ab \in Sessions : ab[2] - ab[1] + 1 = b.longest_session
       /\ b.total_binge_films =
             Cardinality({i \in DOMAIN InOrder :
                             \E ab \in Sessions : ab[1] <= i /\ i <= ab[2]})
       /\ b.total_binge_films <= Len(diary_df.dates)

\* C30 witness: a diary not in date order with two sessions, the later one
\* open when the entries run out.
C30_Witness ==
    /\ diary_df.examined
    /\ diary_df.dates = <<Date(5), Date(0), Date(4), Date(1)>>
    /\ diary_df.binge_analysis.total_sessions = 2
    /\ diary_df.binge_analysis.total_binge_films = 4

(***************************************************************************)
(* The statistics stage.  SpecStats: the statistics of one enriched        *)
(* dataset, computed by main.py ("backend") or by api/analyze.py ("api").  *)
(***************************************************************************)
\* rows of films_enriched
MaxStatRows == 3

\* A full record of metadata_df with the fields the statistics read.
StatRecord(id, title, runtime, director, genres, decade, countries, language, cast) ==
    [EmptyRecord EXCEPT !.kind = "full", !.tmdb_id = SomeId(id), !.title = title,
                        !.runtime = runtime, !.director = director,
                        !.directors = IF director.none THEN <<>> ELSE <<director.v>>,
                        !.genres = genres, !.decade = decade,
                        !.countries = countries, !.language = language,
                        !.cast = cast]

\* A row of films_enriched whose film has a full record.
StatFilm(rec) ==
    EnrichedRow(FilmKey(rec.title, NaN), rec.tmdb_id, TRUE, rec)

\* The rows the datasets of SpecStats are made of: runtimes that tie for the
\* longest and for the shortest, a runtime of 0, names that tie in every
\* ranking, and a film that matched nothing.
StatFilms ==
    {StatFilm(StatRecord(1, "A", 120, Str("Mann"), <<"Crime", "Thriller">>,
                         Str("1990s"), <<"United States">>, "en",
                         <<"Pacino", "De Niro">>)),
     StatFilm(StatRecord(2, "B", 90, Str("Bong"), <<"Thriller", "Comedy">>,
                         Str("2010s"), <<"South Korea">>, "ko", <<"Song">>)),
     StatFilm(StatRecord(3, "C", 150, Str("Bong"), <<"Drama">>,
                         Str("2000s"), <<"South Korea", "United States">>, "ko",
                         <<"Song", "Pacino">>)),
     StatFilm(StatRecord(4, "D", 150, NoStr, <<>>, NoStr, <<>>, "en", <<>>)),
     StatFilm(StatRecord(5, "E", 90, Str("Mann"), <<"Drama", "Crime">>,
                         Str("2010s"), <<"United States">>, "en", <<"De Niro">>)),
     StatFilm(StatRecord(6, "Z", 0, Str("Kore-eda"), <<"Drama">>,
                         Str("1990s"), <<"Japan">>, "ja", <<>>)),
     StatFilm(StatRecord(7, "Y", 0, Str("Bong"), <<"Crime", "Drama">>,
                         Str("2010s"), <<"South Korea", "Japan">>, "ko", <<"Song">>)),
     EnrichedRow(FilmKey("Lost Reel", NaN), NoId, FALSE, EmptyRecord)}

\* The rows whose metadata columns are not null.
HasMetadata(row) == row.matched /\ row.meta.kind = "full"

\* films_enriched[column].dropna() for the columns of one value per row, and
\* [x for xs in films_enriched[column].dropna() for x in xs] for the list
\* columns
RECURSIVE director_column(_)
director_column(fe) ==
    IF fe = <<>> THEN <<>>
    ELSE (IF HasMetadata(fe[1]) /\ ~fe[1].meta.director.none
          THEN <<fe[1].meta.director.v>> ELSE <<>>) \o director_column(Tail(fe))

RECURSIVE decade_column(_)
decade_column(fe) ==
    IF fe = <<>> THEN <<>>
    ELSE (IF HasMetadata(fe[1]) /\ ~fe[1].meta.decade.none
          THEN <<fe[1].meta.decade.v>> ELSE <<>>) \o decade_column(Tail(fe))

RECURSIVE language_column(_)
language_column(fe) ==
    IF fe = <<>> THEN <<>>
    ELSE (IF HasMetadata(fe[1]) THEN <<fe[1].meta.language>> ELSE <<>>)
         \o language_column(Tail(fe))

RECURSIVE genres_column(_)
genres_column(fe) ==
    IF fe = <<>> THEN <<>>
    ELSE (IF HasMetadata(fe[1]) THEN fe[1].meta.genres ELSE <<>>)
         \o genres_column(Tail(fe))

RECURSIVE countries_column(_)
countries_column(fe) ==
    IF fe = <<>> THEN <<>>
    ELSE (IF HasMetadata(fe[1]) THEN fe[1].meta.countries ELSE <<>>)
         \o countries_column(Tail(fe))

RECURSIVE cast_column(_)
cast_column(fe) ==
    IF fe = <<>> THEN <<>>
    ELSE (IF HasMetadata(fe[1]) THEN fe[1].meta.cast ELSE <<>>)
         \o cast_column(Tail(fe))

\* collections.Counter(values): the counts, in the order in which the values
\* were first seen (the order of the dict)
RECURSIVE Counter(_)
Counter(values) ==
    IF values = <<>> THEN <<>>
    ELSE LET front == Counter(SubSeq(values, 1, Len(values) - 1))
             v == values[Len(values)]
         IN IF \E i \in DOMAIN front : front[i].name = v
            THEN [i \in DOMAIN front |->
                     IF front[i].name = v THEN [front[i] EXCEPT !.count = @ + 1]
                     ELSE front[i]]
            ELSE Append(front, [name |-> v, count |-> 1])

\* (mutant) an entry goes before the entries of its own count
RECURSIVE insert_by_count_unstable(_, _)
insert_by_count_unstable(sorted, e) ==
    IF sorted = <<>> THEN <<e>>
    ELSE IF sorted[1].count > e.count
         THEN <<sorted[1]>> \o insert_by_count_unstable(Tail(sorted), e)
         ELSE <<e>> \o sorted

\* sorted(..., key=count, reverse=True) is stable: an entry goes after the
\* entries of its own count that came before it
RECURSIVE insert_by_count(_, _)
insert_by_count(sorted, e) ==
    IF sorted = <<>> THEN <<e>>
    ELSE IF sorted[1].count >= e.count
         THEN <<sorted[1]>> \o insert_by_count(Tail(sorted), e)
         ELSE <<e>> \o sorted

RECURSIVE sorted_by_count(_)
sorted_by_count(counter) ==
    IF counter = <<>> THEN <<>>
    ELSE insert_by_count(sorted_by_count(SubSeq(counter, 1, Len(counter) - 1)),
                         counter[Len(counter)])

\* Counter.most_common(n)
most_common(counter, n) ==
    SubSeq(sorted_by_count(counter), 1, Min(n, Len(counter)))

\* The order of the decade labels as strings: four digits and an "s".
decade_start(label) ==
    CASE label = "1990s" -> 1990 [] label = "2000s" -> 2000
      [] label = "2010s" -> 2010 [] OTHER -> 0

RECURSIVE insert_by_label(_, _)
insert_by_label(sorted, e) ==
    IF sorted = <<>> THEN <<e>>
    ELSE IF decade_start(sorted[1].name) >= decade_start(e.name)
         THEN <<sorted[1]>> \o insert_by_label(Tail(sorted), e)
         ELSE <<e>> \o sorted

\* sorted(decade_counts.items(), key=lambda x: x[0], reverse=True)
RECURSIVE sorted_by_label(_)
sorted_by_label(counter) ==
    IF counter = <<>> THEN <<>>
    ELSE insert_by_label(sorted_by_label(SubSeq(counter, 1, Len(counter) - 1)),
                         counter[Len(counter)])

\* value_counts().sort_index(): by label, ascending
Reverse(seq) == [i \in DOMAIN seq |-> seq[Len(seq) + 1 - i]]
sort_index(counter) == Reverse(sorted_by_label(counter))

\* films_enriched[films_enriched['runtime'] > 0]['runtime']: the index labels
\* of the rows with a positive runtime, in order (NaN > 0 is false)
runtimes(fe) ==
    LET RECURSIVE positive(_)
        positive(i) ==
            IF i > Len(fe) THEN <<>>
            ELSE (IF HasMetadata(fe[i]) /\ fe[i].meta.runtime > 0 THEN <<i>> ELSE <<>>)
                 \o positive(i + 1)
    IN positive(1)

\* Series.idxmax(): the label of the first of the greatest values
RECURSIVE idxmax(_, _)
idxmax(fe, idx) ==
    IF Len(idx) = 1 THEN idx[1]
    ELSE LET best == idxmax(fe, SubSeq(idx, 1, Len(idx) - 1))
             i == idx[Len(idx)]
         IN IF fe[i].meta.runtime > fe[best].meta.runtime THEN i ELSE best

\* Series.idxmin(): the label of the first of the least values
RECURSIVE idxmin(_, _)
idxmin(fe, idx) ==
    IF Len(idx) = 1 THEN idx[1]
    ELSE LET best == idxmin(fe, SubSeq(idx, 1, Len(idx) - 1))
             i == idx[Len(idx)]
         IN IF fe[i].meta.runtime < fe[best].meta.runtime THEN i ELSE best

\* {'title': row['title'], 'runtime': int(row['runtime'])}
film_of(row) == [title |-> row.title, runtime |-> row.meta.runtime]

\* main.py, "Runtime analysis": fe is films_enriched after the title
\* consolidation
runtime_analysis(st, fe) ==
    IF runtimes(fe) = <<>> THEN st
    ELSE [st EXCEPT !.longest_film = film_of(fe[idxmax(fe, runtimes(fe))]),
                    !.shortest_film = film_of(fe[idxmin(fe, runtimes(fe))])]

\* main.py, "CINEMATIC PERSONA": stats.get(...) of what stats holds by now
cinematic_persona(st) ==
    [st EXCEPT !.cinematic_persona =
        [top_genre |-> IF st.top_genres # <<>> THEN st.top_genres[1].name ELSE "Film",
         top_decade |-> IF st.favorite_decade # NoEntry
                        THEN st.favorite_decade.name ELSE "2020s",
         top_country |-> IF st.top_countries # <<>>
                         THEN st.top_countries[1].name ELSE "USA"]]

\* main.py, "Director Deep Analysis" (with a rating for each film)
director_deep_analysis(st, fe) ==
    IF st.most_watched_director # NoEntry /\ fe # <<>>
    THEN [st EXCEPT !.director_deep_analysis =
             [name |-> st.most_watched_director.name,
              count |-> Cardinality({i \in DOMAIN fe :
                           /\ HasMetadata(fe[i])
                           /\ fe[i].meta.director = Str(st.most_watched_director.name)})]]
    ELSE st

\* main.py, "Cinematic World Tour": the first five of top_countries
world_tour(st) ==
    IF st.top_countries # <<>>
    THEN [st EXCEPT !.world_tour = SubSeq(st.top_countries, 1, Min(5, Len(st.top_countries)))]
    ELSE st

\* main.py, "Sinematik Pasaportun": the number of countries told
cinematic_passport(st) ==
    IF st.top_countries # <<>> /\ st.total_countries > 0
    THEN [st EXCEPT !.cinematic_passport = st.total_countries]
    ELSE st

\* main.py, "DETAILED ANALYSIS"
detailed_analysis(st, fe) ==
    LET director_counts == Counter(director_column(fe))
        genre_counts == Counter(genres_column(fe))
        decade_counts == Counter(decade_column(fe))
        country_counts == Counter(countries_column(fe))
    IN [st EXCEPT
          !.top_directors = most_common(director_counts, 20),
          !.total_directors = Len(director_counts),
          !.most_watched_director = IF director_counts # <<>>
                                    THEN most_common(director_counts, 1)[1] ELSE NoEntry,
          !.top_genres = most_common(genre_counts, 15),
          !.decades = sorted_by_label(decade_counts),
          !.favorite_decade = IF decade_counts # <<>>
                              THEN most_common(decade_counts, 1)[1] ELSE NoEntry,
          !.top_countries = most_common(country_counts, 15),
          !.total_countries = Len(country_counts),
          !.top_languages = most_common(Counter(language_column(fe)), 10),
          !.top_actors = most_common(Counter(cast_column(fe)), 20)]

\* main.py: the statistics, section by section in the order of the source
backend_stats(fe) ==
    detailed_analysis(
       cinematic_passport(
          world_tour(
             director_deep_analysis(
                cinematic_persona(
                   runtime_analysis([NoStats EXCEPT !.impl = "backend"], fe)),
                fe))),
       fe)

\* api/analyze.py merges without suffixes: both frames have 'title', so the
\* merged frame has 'title_x' and 'title_y' and no 'title', and
\* films_enriched.loc[...][['title', 'runtime']] is a KeyError as soon as
\* there is a positive runtime.  order is the order in which
\* value_counts().nlargest(10) leaves the directors.
api_stats(fe, order) ==
    IF runtimes(fe) # <<>>
    THEN [NoStats EXCEPT !.impl = "api", !.failure = "KeyError: 'title'"]
    ELSE [NoStats EXCEPT
             !.impl = "api",
             !.top_directors = [i \in DOMAIN order |-> Counter(director_column(fe))[order[i]]],
             !.top_genres = most_common(Counter(genres_column(fe)), 10),
             !.top_countries = most_common(Counter(countries_column(fe)), 10),
             !.decades = sort_index(Counter(decade_column(fe)))]

\* value_counts() sorts by count, descending; pandas does not say in which
\* order it leaves equal counts: every order of the counter that is
\* descending by count.
value_counts_orders(counter) ==
    {order \in [DOMAIN counter -> DOMAIN counter] :
        /\ \A i, j \in DOMAIN counter : order[i] = order[j] => i = j
        /\ \A i, j \in DOMAIN counter :
              i < j => counter[order[i]].count >= counter[order[j]].count}

StatsBackend ==
    /\ stats.impl = ""
    /\ stats' = backend_stats(films_enriched)
    /\ UNCHANGED <<cache, getVars, rtask, ftask, batchVars, loadVars, pool, cacheVars,
                   progressVars, diary_df>>

StatsApi ==
    /\ stats.impl = ""
    /\ \E order \in value_counts_orders(Counter(director_column(films_enriched))) :
          stats' = api_stats(films_enriched, order)
    /\ UNCHANGED <<cache, getVars, rtask, ftask, batchVars, loadVars, pool, cacheVars,
                   progressVars, diary_df>>

\* The datasets with which the statistics stage is reached: at least one
\* film has a full record (the batch fails before this stage otherwise).
InitStats ==
    /\ cache = EmptyCache
    /\ glog = NoLog
    /\ ncalls = 0
    /\ rtask = <<>>
    /\ ftask = <<>>
    /\ pc = "analyzing"
    /\ unique_films = <<>>
    /\ tmdb_ids = <<>>
    /\ unique_tmdb_ids = <<>>
    /\ metadata_df = <<>>
    /\ failure = ""
    /\ \E fe \in UNION {[1..n -> StatFilms] : n \in 1..MaxStatRows} :
          /\ IsUnique(fe)
          /\ \E i \in DOMAIN fe : HasMetadata(fe[i])
          /\ films_enriched = fe
    /\ csv_files = [watched |-> AbsentFile, ratings |-> AbsentFile, diary |-> AbsentFile]
    /\ loaded = NotLoaded
    /\ pool = NoPool
    /\ gtask = <<>>
    /\ first_write = <<>>
    /\ now = 0
    /\ progress = <<>>
    /\ req = <<>>
    /\ stats = NoStats
    /\ diary_df = NoDiary

NextStats == StatsBackend \/ StatsApi

SpecStats == InitStats /\ [][NextStats]_vars

(***************************************************************************)
(* Claims about the statistics.                                            *)
(***************************************************************************)
\* The position at which a value is first seen.
FirstSeen(values, v) ==
    CHOOSE k \in DOMAIN values : values[k] = v /\ \A m \in 1..(k - 1) : values[m] # v

\* ranking counts the values: each value once, with the number of times it
\* occurs.
Counts(ranking, values) ==
    /\ {ranking[i].name : i \in DOMAIN ranking} = Range(values)
    /\ Len(ranking) = Cardinality(Range(values))
    /\ \A i \in DOMAIN ranking :
          ranking[i].count = Cardinality({k \in DOMAIN values : values[k] = ranking[i].name})

DescendingCount(ranking) ==
    \A i, j \in DOMAIN ranking : i < j => ranking[i].count >= ranking[j].count

\* Descending count, and first-seen order among equal counts.
Ranked(ranking, values) ==
    /\ Counts(ranking, values)
    /\ DescendingCount(ranking)
    /\ \A i, j \in DOMAIN ranking :
          (i < j /\ ranking[i].count = ranking[j].count)
             => FirstSeen(values, ranking[i].name) < FirstSeen(values, ranking[j].name)

\* C25 as stated: every frequency ranking (directors, genres, decades,
\* countries, languages, cast) is ordered by descending count, and entries
\* with equal counts appear in first-seen order of the enriched dataset.
C25_EveryRankingByCount ==
    /\ stats.impl = "backend" =>
          /\ Ranked(stats.top_directors, director_column(films_enriched))
          /\ Ranked(stats.top_genres, genres_column(films_enriched))
          /\ Ranked(stats.decades, decade_column(films_enriched))
          /\ Ranked(stats.top_countries, countries_column(films_enriched))
          /\ Ranked(stats.top_languages, language_column(films_enriched))
          /\ Ranked(stats.top_actors, cast_column(films_enriched))
    /\ (stats.impl = "api" /\ stats.failure = "") =>
          /\ Ranked(stats.top_directors, director_column(films_enriched))
          /\ Ranked(stats.top_genres, genres_column(films_enriched))
          /\ Ranked(stats.decades, decade_column(films_enriched))
          /\ Ranked(stats.top_countries, countries_column(films_enriched))

\* C25, amended: the rankings of directors, genres, countries, languages and
\* cast of main.py and those of genres and countries of api/analyze.py are
\* ordered by descending count, equal counts in first-seen order; the decades
\* are ordered by decade, newest first in main.py and oldest first in
\* api/analyze.py, and the directors of api/analyze.py by descending count.
C25_RankingsByCountDecadesByDecade ==
    /\ stats.impl = "backend" =>
          /\ Ranked(stats.top_directors, director_column(films_enriched))
          /\ Ranked(stats.top_genres, genres_column(films_enriched))
          /\ Ranked(stats.top_countries, countries_column(films_enriched))
          /\ Ranked(stats.top_languages, language_column(films_enriched))
          /\ Ranked(stats.top_actors, cast_column(films_enriched))
          /\ Counts(stats.decades, decade_column(films_enriched))
          /\ \A i, j \in DOMAIN stats.decades :
                i < j => decade_start(stats.decades[i].name)
                            > decade_start(stats.decades[j].name)
    /\ (stats.impl = "api" /\ stats.failure = "") =>
          /\ Ranked(stats.top_genres, genres_column(films_enriched))
          /\ Ranked(stats.top_countries, countries_column(films_enriched))
          /\ Counts(stats.top_directors, director_column(films_enriched))
          /\ DescendingCount(stats.top_directors)
          /\ Counts(stats.decades, decade_column(films_enriched))
          /\ \A i, j \in DOMAIN stats.decades :
                i < j => decade_start(stats.decades[i].name)
                            < decade_start(stats.decades[j].name)

\* C25 witness: statistics of main.py in which two genres tie behind a more
\* frequent one that was seen after them, and the most frequent decade is not
\* the newest.
C25_Witness ==
    /\ stats.impl = "backend"
    /\ Len(stats.top_genres) >= 3
    /\ stats.top_genres[2].count = stats.top_genres[3].count
    /\ FirstSeen(genres_column(films_enriched), stats.top_genres[1].name) > 1
    /\ Len(stats.decades) >= 2
    /\ stats.decades[1].count < stats.decades[2].count

\* The rows with a positive runtime.
Timed == {i \in DOMAIN films_enriched :
             HasMetadata(films_enriched[i]) /\ films_enriched[i].meta.runtime > 0}

\* Row i has the greatest (least) runtime among them and is the first to.
Longest(i) ==
    /\ i \in Timed
    /\ \A j \in Timed :
          /\ films_enriched[j].meta.runtime <= films_enriched[i].meta.runtime
          /\ films_enriched[j].meta.runtime = films_enriched[i].meta.runtime => i <= j

Shortest(i) ==
    /\ i \in Timed
    /\ \A j \in Timed :
          /\ films_enriched[j].meta.runtime >= films_enriched[i].meta.runtime
          /\ films_enriched[j].meta.runtime = films_enriched[i].meta.runtime => i <= j

LongestShortestOf(st) ==
    /\ st.failure = ""
    /\ \A i \in Timed :
          /\ Longest(i) => st.longest_film = film_of(films_enriched[i])
          /\ Shortest(i) => st.shortest_film = film_of(films_enriched[i])
    /\ Timed = {} => st.longest_film = NoFilm /\ st.shortest_film = NoFilm

\* C26: longest_film and shortest_film are the films with the greatest and
\* the least runtime among the enriched rows with runtime > 0, the title is
\* that of the row of the runtime, and on ties the first row in input order
\* wins.
C26_LongestShortestFilm ==
    stats.impl # "" => LongestShortestOf(stats)

\* C26 for main.py alone.
C26_LongestShortestFilmBackend ==
    stats.impl = "backend" => LongestShortestOf(stats)

\* C27: in the backend statistics stage every derived metric reads its inputs
\* after they are computed: with a non-empty top_genres, favorite_decade,
\* top_countries and most_watched_director in the final statistics, the
\* persona is built from that genre, decade and country, and
\* director_deep_analysis, world_tour and cinematic_passport are produced
\* from those values.
C27_DerivedMetricsReadComputedInputs ==
    stats.impl = "backend" =>
       /\ stats.top_genres # <<>> =>
             stats.cinematic_persona.top_genre = stats.top_genres[1].name
       /\ stats.favorite_decade # NoEntry =>
             stats.cinematic_persona.top_decade = stats.favorite_decade.name
       /\ stats.top_countries # <<>> =>
             /\ stats.cinematic_persona.top_country = stats.top_countries[1].name
             /\ stats.world_tour # <<>>
             /\ stats.cinematic_passport = stats.total_countries
       /\ stats.most_watched_director # NoEntry =>
             stats.director_deep_analysis.name = stats.most_watched_director.name

=============================================================================
